---------------------------- MODULE Spec2Model ----------------------------
(***************************************************************************)
(* weather-pulse-explorer: the acquisition pipeline (geocoding, the two    *)
(* coordinators over Provider A = sunrise-sunset.org and Provider B =      *)
(* sunrisesunset.io, the multi-date loop of the acquisition page and the   *)
(* per-record appends to the store).                                       *)
(*                                                                         *)
(* Time.  A Date of the page is a half-day number t = 2*day + tod (tod 0:  *)
(* local midnight, as the calendar picker gives it; tod 1: later that      *)
(* day, as new Date() gives it).  A calendar date is the day number, an    *)
(* instant is a number of seconds since 00:00:00Z of day 0.                *)
(***************************************************************************)
EXTENDS Integers, Sequences, FiniteSets, TLC

\* ------------------------------------------------------------------ bounds
\* Last day the inputs of Spec range over.
MaxDay == 2
\* A new acquisition is started only while the store holds at most this many records.
StoreCap == 0
\* SpecCap draws ranges of up to MaxDates + CapOver days.
CapOver == 2
\* SpecRepeat: an acquisition is started again while the store holds at most
\* this many records.
RepeatCap == 2
\* SpecAnalytics: the Visualize page loads up to this many records.
MaxRecords == 3
\* SpecEngine: the pages load up to this many records and derive their views.
MaxInsightRecords == 4
\* SpecEngine: a page renders up to this many times over the records it loaded.
MaxRuns == 2

\* Index.tsx: "Limit to 30 days maximum".
MaxDates == 30

SecondsPerDay == 24 * 3600

\* ------------------------------------------------------------ small helpers
DayOf(t) == t \div 2

MidnightZ(day) == day * SecondsPerDay

Hms(h, m, s) == h * 3600 + m * 60 + s

Abs(x) == IF x < 0 THEN -x ELSE x

Sign(x) == IF x < 0 THEN -1 ELSE 1

\* ------------------------------------------------------------------ numbers
\* The analytics compute in JavaScript Numbers: binary floating point, every
\* operation rounded to the nearest representable value, ties to even.  A
\* Number is m * 2^e with a significand m of FloatBits bits (normalised), or
\* NaN.  binary64 keeps 53 bits; the model keeps 13, so that every intermediate
\* product stays below 2^31: rounding happens in the same places of a
\* computation but at a coarser grain, and an integer is exact as long as it is
\* a power of two times a value below 2^13.  The binary expansion of 1/60
\* repeats every 4 bits and 13 = 53 (mod 4), so a day length in minutes
\* (seconds / 60) is rounded the same way as in binary64.
FloatBits == 13

RECURSIVE Pow2(_)
Pow2(k) == IF k <= 0 THEN 1 ELSE 2 * Pow2(k - 1)

RECURSIVE BitLen(_)
BitLen(n) == IF n = 0 THEN 0 ELSE 1 + BitLen(n \div 2)

NaN == [nan |-> TRUE, m |-> 0, e |-> 0]

Zero == [nan |-> FALSE, m |-> 0, e |-> 0]

\* n / 2^k (n >= 0, k >= 1) rounded to the nearest integer, ties to even.
RoundShift(n, k) ==
    LET q == n \div Pow2(k)
        r == n % Pow2(k)
        half == Pow2(k - 1)
    IN  IF r > half \/ (r = half /\ q % 2 = 1) THEN q + 1 ELSE q

\* The Number nearest to sign * n * 2^e, for an integer n >= 0.
Fl(sign, n, e) ==
    IF n = 0 THEN Zero
    ELSE LET len == BitLen(n) IN
         IF len <= FloatBits
         THEN [nan |-> FALSE, m |-> sign * n * Pow2(FloatBits - len),
               e |-> e - (FloatBits - len)]
         ELSE LET q == RoundShift(n, len - FloatBits) IN
              IF q = Pow2(FloatBits)
              THEN [nan |-> FALSE, m |-> sign * Pow2(FloatBits - 1),
                    e |-> e + (len - FloatBits) + 1]
              ELSE [nan |-> FALSE, m |-> sign * q, e |-> e + (len - FloatBits)]

FromInt(n) == Fl(Sign(n), Abs(n), 0)

FNeg(a) == [a EXCEPT !.m = -a.m]

\* a + b.  An operand more than FloatBits + 1 binary places below the other
\* is less than a quarter of its last place and leaves it unchanged.
FAdd(a, b) ==
    IF a.nan \/ b.nan THEN NaN
    ELSE IF a.m = 0 THEN b
    ELSE IF b.m = 0 THEN a
    ELSE LET hi == IF a.e >= b.e THEN a ELSE b
             lo == IF a.e >= b.e THEN b ELSE a
             g == hi.e - lo.e
         IN  IF g > FloatBits + 1 THEN hi
             ELSE LET n == hi.m * Pow2(g) + lo.m IN Fl(Sign(n), Abs(n), lo.e)

FSub(a, b) == FAdd(a, FNeg(b))

FMul(a, b) ==
    IF a.nan \/ b.nan THEN NaN
    ELSE Fl(Sign(a.m) * Sign(b.m), Abs(a.m) * Abs(b.m), a.e + b.e)

\* The Number nearest to sign * (n / d) * 2^e, for 0 <= n < 2^30 and
\* 2^12 <= d < 2^14: the quotient is taken to more than FloatBits + 1 bits and
\* its last bit says whether anything was left over.
Ratio(sign, n, d, e) ==
    IF n = 0 THEN Zero
    ELSE LET k == 30 - BitLen(n)
             num == n * Pow2(k)
             q == num \div d
             sticky == IF num % d = 0 THEN 0 ELSE 1
         IN  Fl(sign, 2 * q + sticky, e - k - 1)

\* a / b; the code never divides by zero (0/0 would be NaN).
FDiv(a, b) ==
    IF a.nan \/ b.nan \/ b.m = 0 THEN NaN
    ELSE Ratio(Sign(a.m) * Sign(b.m), Abs(a.m), Abs(b.m), a.e - b.e)

\* The largest r with r * r <= n, found bit by bit.
RECURSIVE ISqrt(_, _, _)
ISqrt(n, bit, acc) ==
    IF bit < 0 THEN acc
    ELSE LET c == acc + Pow2(bit) IN
         IF c <= 46340 /\ c * c <= n THEN ISqrt(n, bit - 1, c) ELSE ISqrt(n, bit - 1, acc)

\* Math.sqrt: NaN for a negative Number.
FSqrt(a) ==
    IF a.nan \/ a.m < 0 THEN NaN
    ELSE IF a.m = 0 THEN Zero
    ELSE LET k == IF (a.e - 16) % 2 = 0 THEN 16 ELSE 17
             n == a.m * Pow2(k)
             r == ISqrt(n, 15, 0)
             sticky == IF r * r = n THEN 0 ELSE 1
         IN  Fl(1, 2 * r + sticky, ((a.e - k) \div 2) - 1)

\* a > b, a < b and a === 0; every comparison with NaN is false.
FGt(a, b) == ~a.nan /\ ~b.nan /\ FSub(a, b).m > 0

FLt(a, b) == FGt(b, a)

FIsZero(a) == ~a.nan /\ a.m = 0

\* parseFloat(a.toFixed(d)) as the integer number of 10^-d units it denotes
\* (scale = 10^d): the nearest to the Number's exact value, the larger in
\* magnitude of two equally near; NaN stays NaN.
ToFixed(a, scale) ==
    IF a.nan THEN [nan |-> TRUE, v |-> 0]
    ELSE LET n == Abs(a.m) * scale
             v == IF a.e >= 0 THEN n * Pow2(a.e)
                  ELSE IF -a.e > 30 THEN 0
                  ELSE LET q == n \div Pow2(-a.e)
                           r == n % Pow2(-a.e)
                       IN  IF 2 * r >= Pow2(-a.e) THEN q + 1 ELSE q
         IN  [nan |-> FALSE, v |-> Sign(a.m) * v]

\* ------------------------------------------------------- provider responses
\* What a request settles with.  kind: "neterr" the fetch promise rejects;
\* "http" response.ok is false; "badjson" response.json() throws; "notok" the
\* body's status is not "OK"; "ok" the body has status "OK" and payload p.
NoResp == [kind |-> "none", p |-> 0]

FailKinds == {"neterr", "http", "badjson", "notok"}

\* Provider A bodies: ISO instants (here seconds after 00:00Z of the requested
\* date) and day_length in seconds.
PayloadA(p) ==
    CASE p = 1 -> [sunrise |-> Hms(6, 0, 0),  sunset |-> Hms(18, 0, 0),
                   solar_noon |-> Hms(12, 0, 0), day_length |-> 43200]
      [] OTHER -> [sunrise |-> Hms(18, 0, 0), sunset |-> Hms(6, 0, 0),
                   solar_noon |-> Hms(12, 0, 0), day_length |-> 43200]

PayloadIdsA == 1..2

\* A 12-hour wall-clock string "hh:mm:ss AM/PM" as its fields; ok = FALSE is a
\* string whose fields are not numbers.
Clock(h, m, s, modifier) == [ok |-> TRUE, h |-> h, m |-> m, s |-> s, modifier |-> modifier]

BadClock == [ok |-> FALSE, h |-> 0, m |-> 0, s |-> 0, modifier |-> ""]

\* Provider B bodies: local wall-clock strings, day_length "HH:MM:SS" (its three
\* fields) and utc_offset in minutes.
PayloadB(p) ==
    CASE p = 1 -> [sunrise |-> Clock(6, 0, 0, "AM"), sunset |-> Clock(6, 0, 0, "PM"),
                   solar_noon |-> Clock(12, 0, 0, "PM"),
                   day_length |-> <<12, 0, 0>>, utc_offset |-> -240]
      [] p = 2 -> [sunrise |-> Clock(12, 30, 0, "AM"), sunset |-> Clock(12, 30, 0, "PM"),
                   solar_noon |-> Clock(6, 30, 0, "AM"),
                   day_length |-> <<11, 30, 0>>, utc_offset |-> 60]
      [] OTHER -> [sunrise |-> BadClock, sunset |-> Clock(6, 0, 0, "PM"),
                   solar_noon |-> Clock(12, 0, 0, "PM"),
                   day_length |-> <<12, 0, 0>>, utc_offset |-> 0]

PayloadIdsB == 1..3

ResponsesA == [kind : FailKinds, p : {0}] \cup [kind : {"ok"}, p : PayloadIdsA]

ResponsesB == [kind : FailKinds, p : {0}] \cup [kind : {"ok"}, p : PayloadIdsB]

SourceA == "sunrise-sunset.org"

SourceB == "sunrisesunset.io"

\* ------------------------------------------------------------ normalisation
\* What processing one settled response gives: threw (an exception left the
\* block) and the results pushed.
Pushed(rec) == [threw |-> FALSE, recs |-> <<rec>>]

Nothing == [threw |-> FALSE, recs |-> <<>>]

Threw == [threw |-> TRUE, recs |-> <<>>]

Result(src, sunrise, sunset, dayLength, solarNoon) ==
    [source |-> src,
     data |-> [sunrise |-> sunrise, sunset |-> sunset,
               day_length |-> dayLength, solar_noon |-> solarNoon]]

\* parseTime: 12-hour fields to the instant on the base date, read as UTC.
To24h(c) ==
    IF c.modifier = "PM" /\ c.h # 12 THEN c.h + 12
    ELSE IF c.modifier = "AM" /\ c.h = 12 THEN 0
    ELSE c.h

parseTime(baseDate, c) == MidnightZ(baseDate) + Hms(To24h(c), c.m, c.s)

\* "Apply utc_offset (in minutes)": offsetMs is added to the parsed instant.
ApplyOffset(instant, utcOffset) == instant + utcOffset * 60

NormalizeB(baseDate, c, utcOffset) == ApplyOffset(parseTime(baseDate, c), utcOffset)

\* day_length "HH:MM:SS" to seconds.
DayLengthSeconds(d) == d[1] * 3600 + d[2] * 60 + d[3]

\* fetchAstronimicalData, the body of the first try block once the request has
\* settled with r.
AstroBodyA(r, day) ==
    CASE r.kind = "neterr"  -> Threw
      [] r.kind = "badjson" -> Threw
      [] r.kind = "ok" ->
           LET b == PayloadA(r.p) IN
           Pushed(Result(SourceA, MidnightZ(day) + b.sunrise, MidnightZ(day) + b.sunset,
                         b.day_length, MidnightZ(day) + b.solar_noon))
      [] OTHER -> Nothing

\* fetchAstronimicalData, the body of the second try block.  An Invalid Date
\* (NaN fields) makes toISOString throw a RangeError.
AstroBodyB(r, day) ==
    CASE r.kind = "neterr"  -> Threw
      [] r.kind = "badjson" -> Threw
      [] r.kind = "ok" ->
           LET b == PayloadB(r.p) IN
           IF ~(b.sunrise.ok /\ b.sunset.ok /\ b.solar_noon.ok) THEN Threw
           ELSE Pushed(Result(SourceB,
                              NormalizeB(day, b.sunrise, b.utc_offset),
                              NormalizeB(day, b.sunset, b.utc_offset),
                              DayLengthSeconds(b.day_length),
                              NormalizeB(day, b.solar_noon, b.utc_offset)))
      [] OTHER -> Nothing

\* (mutant) no try/catch around a provider's block: its exception leaves the function.
CatchLocal_Rethrow(c) == c

\* The catch of each try block of fetchAstronimicalData: the error is logged
\* and the block contributes nothing.
CatchLocal(c) == IF c.threw THEN Nothing ELSE c

\* fetchSunriseSunsetData builds new Date(`${date}T${sunrise}${sign}${abs}:00`) from
\* Provider B's wall-clock string and offset.  The string is not an ISO date-time,
\* so what the Date constructor makes of it is left to the engine: an Invalid
\* Date (toISOString then throws), or a lenient reading of the wall-clock time.
DateImpls == {"invalid", "lenient"}

SunDateOk(c, impl) == c.ok /\ impl = "lenient"

SunDate(day, c) == MidnightZ(day) + Hms(To24h(c), c.m, c.s)

\* fetchSunriseSunsetData, "Process primary API response": under allSettled a
\* rejected request is skipped by the status test, and only json() can throw.
SunBodyA(r, day) ==
    CASE r.kind = "badjson" -> Threw
      [] r.kind = "ok" ->
           LET b == PayloadA(r.p) IN
           Pushed(Result(SourceA, MidnightZ(day) + b.sunrise, MidnightZ(day) + b.sunset,
                         b.day_length, MidnightZ(day) + b.solar_noon))
      [] OTHER -> Nothing

\* fetchSunriseSunsetData, "Process backup API response".
SunBodyB(r, day, impl) ==
    CASE r.kind = "badjson" -> Threw
      [] r.kind = "ok" ->
           LET b == PayloadB(r.p) IN
           IF ~(SunDateOk(b.sunrise, impl) /\ SunDateOk(b.sunset, impl)
                /\ SunDateOk(b.solar_noon, impl))
           THEN Threw
           ELSE Pushed(Result(SourceB, SunDate(day, b.sunrise), SunDate(day, b.sunset),
                              DayLengthSeconds(b.day_length), SunDate(day, b.solar_noon)))
      [] OTHER -> Nothing

\* What a coordinator call returns: its results, whether it showed the
\* "API Error" toast, and whether an exception left the function.
Returned(results) == [results |-> results, warned |-> results = <<>>, threw |-> FALSE]

Rejected == [results |-> <<>>, warned |-> FALSE, threw |-> TRUE]

\* fetchSunriseSunsetData once both requests have settled: one try block
\* around everything, whose catch shows the toast and returns [].
fetchSunriseSunsetDataResult(rA, rB, day, impl) ==
    LET a == SunBodyA(rA, day)
        b == SunBodyB(rB, day, impl)
    IN  IF a.threw \/ b.threw THEN [results |-> <<>>, warned |-> TRUE, threw |-> FALSE]
        ELSE Returned(a.recs \o b.recs)

\* fetchAstronimicalData: the results after the first block (partial) and the
\* second; an exception that a block's catch lets through rejects the call.
AstroAfterA(rA, day) == CatchLocal(AstroBodyA(rA, day))

AstroAfterB(partial, rB, day) ==
    LET b == CatchLocal(AstroBodyB(rB, day))
    IN  IF b.threw THEN Rejected ELSE Returned(partial \o b.recs)

\* ---------------------------------------------------------------- geocoding
\* Index.tsx's table lookup, over the place names the model enters.  Names are
\* already lower case; Trim removes the blanks of the blank name.
Null == [lat |-> 0, lng |-> 0, found |-> FALSE]

Coords(lat, lng) == [lat |-> lat, lng |-> lng, found |-> TRUE]

Trim(name) == IF name = " " THEN "" ELSE name

\* Three of the table's entries, in table order (degrees * 10000).
cityCoordinates ==
    << [city |-> "new york", at |-> Coords(407128, -740060)],
       [city |-> "london",   at |-> Coords(515074, -1278)],
       [city |-> "paris",    at |-> Coords(488566, 23522)] >>

\* a.includes(b) for the names of the model.
Includes(a, b) ==
    \/ a = b
    \/ b = ""
    \/ <<a, b>> \in {<<"london bridge", "london">>, <<"new york", "york">>,
                     <<"london", "lon">>, <<"london bridge", "lon">>,
                     <<"paris", "par">>, <<"sparta", "par">>}

FirstMatch(normalized, i) ==
    CHOOSE k \in (i..Len(cityCoordinates)) \cup {0} :
        /\ k # 0 => (Includes(normalized, cityCoordinates[k].city)
                        \/ Includes(cityCoordinates[k].city, normalized))
        /\ \A j \in i..Len(cityCoordinates) :
              (Includes(normalized, cityCoordinates[j].city)
                 \/ Includes(cityCoordinates[j].city, normalized)) => (k # 0 /\ k <= j)

getCoordinates(cityName) ==
    LET normalized == Trim(cityName)
        exact == {k \in 1..Len(cityCoordinates) : cityCoordinates[k].city = normalized}
        partial == FirstMatch(normalized, 1)
    IN  IF exact # {} THEN cityCoordinates[CHOOSE k \in exact : TRUE].at
        ELSE IF partial # 0 THEN cityCoordinates[partial].at
        ELSE cityCoordinates[1].at

\* What `getCoordinates(location)` gives the page when the import resolves to
\* services/geocoding.ts: that function is async and the call is not awaited,
\* so `coordinates` is the promise; it is truthy and has no lat and no lng.
UnawaitedPromise == [lat |-> "undefined", lng |-> "undefined", found |-> TRUE]

\* services/geocoding.ts: what the Nominatim request settles with.  "neterr" the
\* fetch rejects, "http" response.ok is false, "badjson" json() throws, "ok" the
\* body is the list LookupPayload(p).
LookupPayload(p) ==
    CASE p = 1 -> << [lat |-> 599139, lon |-> 107522] >>
      [] p = 2 -> << [lat |-> 379838, lon |-> 237275], [lat |-> 0, lon |-> 0] >>
      [] OTHER -> << >>

LookupResponses ==
    [kind : {"neterr", "http", "badjson"}, p : {0}] \cup [kind : {"ok"}, p : 0..2]

\* What a call of the geocoder ends with.
GeoReturn(at, toast) == [threw |-> FALSE, out |-> at, toast |-> toast]

GeoThrow == [threw |-> TRUE, out |-> Null, toast |-> "none"]

\* The substring fallback over the table, and the toast when it finds nothing.
GeoFallback(normalized, toast) ==
    LET k == FirstMatch(normalized, 1)
    IN  IF k # 0 THEN GeoReturn(cityCoordinates[k].at, "none") ELSE GeoReturn(Null, toast)

\* services/geocoding.ts, the try block once the request has settled with r.
GeoTry(normalized, r) ==
    IF r.kind # "ok" THEN GeoThrow
    ELSE LET data == LookupPayload(r.p)
         IN  IF Len(data) > 0 THEN GeoReturn(Coords(data[1].lat, data[1].lon), "none")
             ELSE GeoFallback(normalized, "City Not Found")

\* (mutant) no catch: the lookup's exception leaves the geocoder.
GeoCatch_Rethrow(c, normalized) == c

\* services/geocoding.ts, the catch block.
GeoCatch(c, normalized) ==
    IF c.threw THEN GeoFallback(normalized, "Geocoding Error") ELSE c

\* ---------------------------------------------------------------- calendar
\* A record's date "yyyy-MM-dd" is its day number, counted from 2024-01-01 = 0.
\* A Date is an instant in hours since 2024-01-01T00:00Z, or the Invalid Date.
MonthStarts == <<0, 31, 60, 91, 121, 152, 182, 213, 244, 274, 305, 335>>

MonthLengths == <<31, 29, 31, 30, 31, 30, 31, 31, 30, 31, 30, 31>>

MonthOf(day) == Cardinality({k \in 1..12 : MonthStarts[k] <= day})

DayOfMonth(day) == day - MonthStarts[MonthOf(day)] + 1

DayNumber(month, dayOfMonth) == MonthStarts[month] + dayOfMonth - 1

InvalidDate == [valid |-> FALSE, at |-> 0]

DateAt(instant) == [valid |-> TRUE, at |-> instant]

\* new Date("yyyy-MM-dd"): midnight UTC of that day.
ParseIsoDate(day) == DateAt(24 * day)

\* The calendar's pick of a day: its midnight in the browser's zone (tz hours
\* ahead of UTC).
LocalMidnight(day, tz) == DateAt(24 * day - tz)

\* getFullYear/getMonth/getDate of a Date: its day in the browser's zone.
LocalDay(d, tz) == (d.at + tz) \div 24

\* date.toLocaleDateString(): the local day, written month first ("M/D/YYYY",
\* en-US) or day first ("DD/MM/YYYY", en-GB).
toLocaleDateString(d, tz, locale) ==
    [first  |-> IF locale = "en-US" THEN MonthOf(LocalDay(d, tz)) ELSE DayOfMonth(LocalDay(d, tz)),
     second |-> IF locale = "en-US" THEN DayOfMonth(LocalDay(d, tz)) ELSE MonthOf(LocalDay(d, tz))]

\* new Date("a/b/yyyy"): a is read as the month and b as the day, local time;
\* a month above 12 or a day the month has not gives the Invalid Date.
ParseSlashDate(str, tz) ==
    IF str.first \in 1..12 /\ str.second \in 1..MonthLengths[str.first]
    THEN LocalMidnight(DayNumber(str.first, str.second), tz)
    ELSE InvalidDate

\* date-fns isAfter and isBefore, and Visualize's isSameDay; with the Invalid
\* Date all three are false.
isAfter(a, b) == a.valid /\ b.valid /\ a.at > b.at

isBefore(a, b) == a.valid /\ b.valid /\ a.at < b.at

isSameDay(a, b, tz) == a.valid /\ b.valid /\ LocalDay(a, tz) = LocalDay(b, tz)

\* The memoised values of Visualize (V) and of Conclusions (C): nothing yet.
NoMemo == [V |-> [done |-> FALSE, runs |-> 0], C |-> [done |-> FALSE, runs |-> 0]]

\* startDate and endDate: undefined, or the Date the calendar picked.
Undefined == [set |-> FALSE, day |-> 0]

Picked(day) == [set |-> TRUE, day |-> day]

\* -------------------------------------------------------------------- state
VARIABLES
    \* the page's inputs and its environment, fixed during a behaviour
    location, dateMode, date, dateFrom, dateTo,
    coordinator,      \* the coordinator the page is built with: fetchSunriseSunsetData,
                      \* which the loop of Index.tsx calls, or fetchAstronimicalData,
                      \* the coordinator of the same contract that
                      \* saveAstronomicalData.ts is written against
    env,              \* what the providers, the store and the engine can answer
    \* fetchAstronomicalData of the page
    isLoading, progress, pc, coords, datesToProcess, idx, completedDates,
    apiResponses, saveIdx,
    report,           \* the last closing toast: Success (with its count) or Error
    rangeWarning,     \* the "Date range limited to 30 days maximum" toast was shown
    \* the coordinator call in progress
    cpc, resp, results,
    \* the outside world
    inflight,         \* provider requests issued and not yet settled
    writes,           \* inserts issued and not yet answered
    store,            \* the rows of astronomical_data, in insertion order
    \* history
    attempted,        \* the dates the coordinator was called for, in call order
    call,             \* the coordinator call that has ended and that the loop has
                      \* not resumed from yet: its responses and its outcome
    \* a call of a geocoder on its own
    geo,
    \* the analytics pages: the records loaded and Visualize's filters
    astronomicalData, cityFilter, startDate, endDate,
    \* what the pages' useMemo callbacks last returned
    memo

\* What the acquisition handler never writes: the other components' state.
others == <<geo, astronomicalData, cityFilter, startDate, endDate, memo>>

\* What no step of an acquisition changes.
inputs == <<location, dateMode, date, dateFrom, dateTo, coordinator, env, others>>

loopVars == <<idx, attempted, inflight, resp, results, cpc, pc, isLoading, progress, report>>

vars == <<inputs, loopVars, coords, datesToProcess, completedDates, apiResponses,
          saveIdx, rangeWarning, writes, store, call>>

NoReport == [title |-> "none", count |-> 0, message |-> ""]

Success(n) == [title |-> "Success", count |-> n, message |-> ""]

Error(msg) == [title |-> "Error", count |-> 0, message |-> msg]

NoCall == [coordinator |-> "none", day |-> 0, respA |-> NoResp, respB |-> NoResp,
           results |-> <<>>, warned |-> FALSE, threw |-> FALSE]

NoResponses == [A |-> NoResp, B |-> NoResp]

\* eachDayOfInterval({start, end}): the days from start's to end's, inclusive.
eachDayOfInterval(from, to) == [i \in 1..(DayOf(to) - DayOf(from) + 1) |-> DayOf(from) + i - 1]

\* (mutant) the warning is shown but the list is not cut.
LimitDates_NoSlice(dates) == dates

\* "Limit to 30 days maximum": datesToProcess.slice(0, 30).
LimitDates(dates) == IF Len(dates) > MaxDates THEN SubSeq(dates, 1, MaxDates) ELSE dates

\* Both coordinators start both requests before their first await.
FanOut(day) == {[prov |-> "A", date |-> day], [prov |-> "B", date |-> day]}

\* The row the loop (and saveAstronomicalData) builds from one result.
AstronomicalRow(response, loc, at, formattedDate) ==
    [location |-> loc, latitude |-> at.lat, longitude |-> at.lng, date |-> formattedDate,
     sunrise |-> response.data.sunrise, sunset |-> response.data.sunset,
     day_length |-> response.data.day_length, solar_noon |-> response.data.solar_noon,
     source |-> response.source]

\* (mutant) an upsert on (location, date, source): a row of the same key is replaced.
Insert_Upsert(rows, row) ==
    LET same(r) == r.location = row.location /\ r.date = row.date /\ r.source = row.source
    IN  IF \E i \in 1..Len(rows) : same(rows[i])
        THEN [i \in 1..Len(rows) |-> IF same(rows[i]) THEN row ELSE rows[i]]
        ELSE Append(rows, row)

\* supabase.from("astronomical_data").insert([astronomicalData]), when it succeeds.
Insert(rows, row) == Append(rows, row)

\* The count the closing Success toast states.
ReportedCount(dates, completed) == Len(dates)

\* Math.floor((completedDates / totalDates) * 100).
ProgressOf(completed, total) == (completed * 100) \div total

\* (mutant) `break` instead of `continue`.
ContinueIndex_Break(i, dates) == Len(dates) + 1

\* `continue`: after a date without results the loop goes to the next date.
ContinueIndex(i, dates) == i + 1

\* (mutant) a catch without the finally: the flag is left set.
Abort_NoFinally(msg) ==
    /\ report' = Error(msg)
    /\ isLoading' = TRUE
    /\ progress' = 0
    /\ pc' = "idle"
    /\ cpc' = "none"
    /\ UNCHANGED <<idx, attempted, inflight, resp, results>>

\* The catch and finally of the page's handler.
Abort(msg) ==
    /\ report' = Error(msg)
    /\ isLoading' = FALSE
    /\ progress' = 0
    /\ pc' = "idle"
    /\ cpc' = "none"
    /\ UNCHANGED <<idx, attempted, inflight, resp, results>>

\* The head of the for loop: the call of the coordinator for the i-th date,
\* up to its first await; after the last date the Success toast and finally.
NextDate(i, dates, att, completed, prog) ==
    IF i <= Len(dates)
    THEN /\ idx' = i
         /\ attempted' = Append(att, dates[i])
         /\ inflight' = inflight \cup FanOut(dates[i])
         /\ resp' = NoResponses
         /\ results' = <<>>
         /\ cpc' = IF coordinator = "fetchAstronimicalData" THEN "awaitA" ELSE "allSettled"
         /\ pc' = "fetching"
         /\ isLoading' = TRUE
         /\ progress' = prog
         /\ report' = NoReport
    ELSE /\ report' = Success(ReportedCount(dates, completed))
         /\ isLoading' = FALSE
         /\ progress' = 0
         /\ pc' = "idle"
         /\ cpc' = "none"
         /\ idx' = i
         /\ attempted' = att
         /\ resp' = NoResponses
         /\ results' = <<>>
         /\ UNCHANGED inflight

\* The coordinator's call ends with r: the promise the loop awaits settles.
Return(r) ==
    /\ call' = [coordinator |-> coordinator, day |-> datesToProcess[idx],
                respA |-> resp.A, respB |-> resp.B,
                results |-> r.results, warned |-> r.warned, threw |-> r.threw]
    /\ cpc' = "none"
    /\ pc' = "fetched"
    /\ UNCHANGED <<idx, attempted, inflight, resp, results, isLoading, progress, report>>

\* ------------------------------------------------------------------ actions
\* (mutant) the handler without its test of the range: the days of the
\* interval, none when the start is after the end, are processed.
Click_NoRangeCheck ==
    /\ pc = "idle"
    /\ ~isLoading
    /\ Len(store) <= env.again
    /\ IF Trim(location) = ""
       THEN /\ report' = Error("Please enter a location")
            /\ UNCHANGED <<idx, attempted, inflight, resp, results, cpc, pc, isLoading,
                           progress, coords, datesToProcess, completedDates, rangeWarning>>
       ELSE LET at == IF env.geocoder = "service" THEN UnawaitedPromise
                      ELSE getCoordinates(location) IN
            IF ~at.found
            THEN /\ Abort("Could not find coordinates for the given location")
                 /\ UNCHANGED <<coords, datesToProcess, completedDates, rangeWarning>>
            ELSE LET all == IF dateMode = "single" THEN <<DayOf(date)>>
                            ELSE eachDayOfInterval(dateFrom, dateTo)
                     dates == IF dateMode = "single" THEN all ELSE LimitDates(all)
                 IN  /\ coords' = at
                     /\ datesToProcess' = dates
                     /\ rangeWarning' = (dateMode = "range" /\ Len(all) > MaxDates)
                     /\ completedDates' = 0
                     /\ NextDate(1, dates, <<>>, 0, 0)
    /\ UNCHANGED <<inputs, apiResponses, saveIdx, writes, store, call>>

\* The button's onClick, up to the handler's first await.
Click ==
    /\ pc = "idle"
    /\ ~isLoading
    /\ Len(store) <= env.again
    /\ IF Trim(location) = ""
       THEN /\ report' = Error("Please enter a location")
            /\ UNCHANGED <<idx, attempted, inflight, resp, results, cpc, pc, isLoading,
                           progress, coords, datesToProcess, completedDates, rangeWarning>>
       ELSE LET at == IF env.geocoder = "service" THEN UnawaitedPromise
                      ELSE getCoordinates(location) IN
            IF ~at.found
            THEN /\ Abort("Could not find coordinates for the given location")
                 /\ UNCHANGED <<coords, datesToProcess, completedDates, rangeWarning>>
            ELSE IF dateMode = "range" /\ dateFrom > dateTo
            THEN /\ Abort("Start date must be before end date")
                 /\ UNCHANGED <<coords, datesToProcess, completedDates, rangeWarning>>
            ELSE LET all == IF dateMode = "single" THEN <<DayOf(date)>>
                            ELSE eachDayOfInterval(dateFrom, dateTo)
                     dates == IF dateMode = "single" THEN all ELSE LimitDates(all)
                 IN  /\ coords' = at
                     /\ datesToProcess' = dates
                     /\ rangeWarning' = (dateMode = "range" /\ Len(all) > MaxDates)
                     /\ completedDates' = 0
                     /\ NextDate(1, dates, <<>>, 0, 0)
    /\ UNCHANGED <<inputs, apiResponses, saveIdx, writes, store, call>>

\* The network settles one request in flight.
NetSettle ==
    \E req \in inflight :
      \E r \in (IF req.prov = "A" THEN env.A ELSE env.B) :
        /\ inflight' = inflight \ {req}
        /\ resp' = IF pc = "fetching" /\ req.date = datesToProcess[idx]
                   THEN [resp EXCEPT ![req.prov] = r]
                   ELSE resp
        /\ UNCHANGED <<inputs, idx, attempted, results, cpc, pc, isLoading, progress, report,
                       coords, datesToProcess, completedDates, apiResponses, saveIdx,
                       rangeWarning, writes, store, call>>

\* (mutant) fail-fast: when Provider A's block fails the function returns at
\* once, without awaiting Provider B.
AstroAwaitA_FailFast ==
    /\ pc = "fetching"
    /\ cpc = "awaitA"
    /\ resp.A # NoResp
    /\ LET a == AstroBodyA(resp.A, datesToProcess[idx]) IN
       IF a.threw
       THEN /\ Return(Returned(<<>>))
            /\ UNCHANGED <<coords, datesToProcess, completedDates, apiResponses, saveIdx,
                           rangeWarning, writes, store>>
       ELSE /\ results' = a.recs
            /\ cpc' = "awaitB"
            /\ UNCHANGED <<idx, attempted, inflight, resp, pc, isLoading, progress, report,
                           coords, datesToProcess, completedDates, apiResponses, saveIdx,
                           rangeWarning, writes, store, call>>
    /\ UNCHANGED inputs

\* (mutant) a retry: when Provider A's response is a failure the request is
\* sent again and awaited again.
AstroAwaitA_Retry ==
    /\ pc = "fetching"
    /\ cpc = "awaitA"
    /\ resp.A # NoResp
    /\ IF resp.A.kind # "ok"
       THEN /\ inflight' = inflight \cup {[prov |-> "A", date |-> datesToProcess[idx]]}
            /\ resp' = [resp EXCEPT !.A = NoResp]
            /\ UNCHANGED <<idx, attempted, results, cpc, pc, isLoading, progress, report,
                           coords, datesToProcess, completedDates, apiResponses, saveIdx,
                           rangeWarning, writes, store, call>>
       ELSE /\ results' = AstroAfterA(resp.A, datesToProcess[idx]).recs
            /\ cpc' = "awaitB"
            /\ UNCHANGED <<idx, attempted, inflight, resp, pc, isLoading, progress, report,
                           coords, datesToProcess, completedDates, apiResponses, saveIdx,
                           rangeWarning, writes, store, call>>
    /\ UNCHANGED inputs

\* fetchAstronimicalData resumes from `await sunriseSunsetOrgPromise`.
AstroAwaitA ==
    /\ pc = "fetching"
    /\ cpc = "awaitA"
    /\ resp.A # NoResp
    /\ LET a == AstroAfterA(resp.A, datesToProcess[idx]) IN
       IF a.threw
       THEN /\ Return(Rejected)
            /\ UNCHANGED <<coords, datesToProcess, completedDates, apiResponses, saveIdx,
                           rangeWarning, writes, store>>
       ELSE /\ results' = a.recs
            /\ cpc' = "awaitB"
            /\ UNCHANGED <<idx, attempted, inflight, resp, pc, isLoading, progress, report,
                           coords, datesToProcess, completedDates, apiResponses, saveIdx,
                           rangeWarning, writes, store, call>>
    /\ UNCHANGED inputs

\* fetchAstronimicalData resumes from `await sunriseSunsetIoPromise` and returns.
AstroAwaitB ==
    /\ pc = "fetching"
    /\ cpc = "awaitB"
    /\ resp.B # NoResp
    /\ Return(AstroAfterB(results, resp.B, datesToProcess[idx]))
    /\ UNCHANGED <<inputs, coords, datesToProcess, completedDates, apiResponses, saveIdx,
                   rangeWarning, writes, store>>

\* fetchSunriseSunsetData resumes from `await Promise.allSettled(...)` and returns.
SunAllSettled ==
    /\ pc = "fetching"
    /\ cpc = "allSettled"
    /\ resp.A # NoResp
    /\ resp.B # NoResp
    /\ Return(fetchSunriseSunsetDataResult(resp.A, resp.B, datesToProcess[idx], env.impl))
    /\ UNCHANGED <<inputs, coords, datesToProcess, completedDates, apiResponses, saveIdx,
                   rangeWarning, writes, store>>

\* (mutant) the inserts are not awaited: all of the date's rows are sent and
\* the loop goes on to the next date at once.
LoopBody_NoAwaitInsert ==
    /\ pc = "fetched"
    /\ call' = NoCall
    /\ IF call.threw
       THEN /\ report' = Error("Unknown error")
            /\ isLoading' = FALSE
            /\ progress' = 0
            /\ pc' = "idle"
            /\ resp' = NoResponses
            /\ UNCHANGED <<idx, attempted, inflight, results, cpc, writes, completedDates>>
       ELSE IF call.results = <<>>
       THEN /\ NextDate(ContinueIndex(idx, datesToProcess), datesToProcess, attempted,
                         completedDates, progress)
            /\ UNCHANGED <<writes, completedDates>>
       ELSE /\ writes' = writes \cup
                 {AstronomicalRow(call.results[k], location, coords, datesToProcess[idx]) :
                    k \in 1..Len(call.results)}
            /\ completedDates' = completedDates + 1
            /\ NextDate(idx + 1, datesToProcess, attempted, completedDates + 1,
                        ProgressOf(completedDates + 1, Len(datesToProcess)))
    /\ UNCHANGED <<inputs, coords, datesToProcess, apiResponses, saveIdx, rangeWarning, store>>

\* The loop resumes from `await fetchSunriseSunsetData(...)`: a rejected call
\* goes to the handler's catch, an empty list skips to the next date, and
\* otherwise the first insert is issued.
LoopBody ==
    /\ pc = "fetched"
    /\ call' = NoCall
    /\ IF call.threw
       THEN /\ report' = Error("Unknown error")
            /\ isLoading' = FALSE
            /\ progress' = 0
            /\ pc' = "idle"
            /\ resp' = NoResponses
            /\ UNCHANGED <<idx, attempted, inflight, results, cpc, apiResponses, saveIdx, writes>>
       ELSE IF call.results = <<>>
       THEN /\ NextDate(ContinueIndex(idx, datesToProcess), datesToProcess, attempted,
                         completedDates, progress)
            /\ UNCHANGED <<apiResponses, saveIdx, writes>>
       ELSE /\ apiResponses' = call.results
            /\ saveIdx' = 1
            /\ writes' = writes \cup
                 {AstronomicalRow(call.results[1], location, coords, datesToProcess[idx])}
            /\ pc' = "saving"
            /\ resp' = NoResponses
            /\ results' = <<>>
            /\ UNCHANGED <<idx, attempted, inflight, cpc, isLoading, progress, report>>
    /\ UNCHANGED <<inputs, coords, datesToProcess, completedDates, rangeWarning, store>>

\* (mutant) `if (error) throw error`: a failed insert goes to the handler's catch.
InsertSettle_ThrowOnError ==
    /\ pc = "saving"
    /\ \E row \in writes :
       \E out \in env.ins :
         /\ store' = IF out = "ok" THEN Insert(store, row) ELSE store
         /\ IF out = "error"
            THEN /\ writes' = writes \ {row}
                 /\ Abort("insert failed")
                 /\ apiResponses' = <<>>
                 /\ saveIdx' = 0
                 /\ UNCHANGED completedDates
            ELSE IF saveIdx < Len(apiResponses)
            THEN /\ saveIdx' = saveIdx + 1
                 /\ writes' = (writes \ {row}) \cup
                      {AstronomicalRow(apiResponses[saveIdx + 1], location, coords,
                                       datesToProcess[idx])}
                 /\ UNCHANGED <<loopVars, completedDates, apiResponses>>
            ELSE /\ writes' = writes \ {row}
                 /\ completedDates' = completedDates + 1
                 /\ NextDate(idx + 1, datesToProcess, attempted, completedDates + 1,
                             ProgressOf(completedDates + 1, Len(datesToProcess)))
                 /\ apiResponses' = <<>>
                 /\ saveIdx' = 0
    /\ UNCHANGED <<inputs, coords, datesToProcess, rangeWarning, call>>

\* The store answers the insert in flight; the loop over apiResponses goes on,
\* and after the last one the date is counted and the next date begins.
InsertSettle ==
    /\ pc = "saving"
    /\ \E row \in writes :
       \E out \in env.ins :
         /\ store' = IF out = "ok" THEN Insert(store, row) ELSE store
         /\ IF saveIdx < Len(apiResponses)
            THEN /\ saveIdx' = saveIdx + 1
                 /\ writes' = (writes \ {row}) \cup
                      {AstronomicalRow(apiResponses[saveIdx + 1], location, coords,
                                       datesToProcess[idx])}
                 /\ UNCHANGED <<loopVars, completedDates, apiResponses>>
            ELSE /\ writes' = writes \ {row}
                 /\ completedDates' = completedDates + 1
                 /\ NextDate(idx + 1, datesToProcess, attempted, completedDates + 1,
                             ProgressOf(completedDates + 1, Len(datesToProcess)))
                 /\ apiResponses' = <<>>
                 /\ saveIdx' = 0
    /\ UNCHANGED <<inputs, coords, datesToProcess, rangeWarning, call>>

Next ==
    \/ Click
    \/ NetSettle
    \/ AstroAwaitA
    \/ AstroAwaitB
    \/ SunAllSettled
    \/ LoopBody
    \/ InsertSettle

\* ------------------------------------------------------------ specifications
Locations == {" ", "london", "atlantis"}

Coordinators == {"fetchAstronimicalData", "fetchSunriseSunsetData"}

\* geocoder: what the page's `getCoordinates` is, the table lookup at the end
\* of Index.tsx ("table") or the import from services/geocoding.ts ("service").
Geocoders == {"table", "service"}

\* again: the page is used again only while the store holds at most that many rows.
FullEnv == {[A |-> ResponsesA, B |-> ResponsesB, ins |-> {"ok", "error"}, impl |-> i,
             geocoder |-> g, again |-> StoreCap] : i \in DateImpls, g \in Geocoders}

NoGeo == [pc |-> "idle", impl |-> "none", resp |-> [kind |-> "none", p |-> 0],
          threw |-> FALSE, out |-> Null, toast |-> "none"]

Idle ==
    /\ isLoading = FALSE
    /\ progress = 0
    /\ pc = "idle"
    /\ coords = Null
    /\ datesToProcess = <<>>
    /\ idx = 0
    /\ completedDates = 0
    /\ apiResponses = <<>>
    /\ saveIdx = 0
    /\ report = NoReport
    /\ rangeWarning = FALSE
    /\ cpc = "none"
    /\ resp = NoResponses
    /\ results = <<>>
    /\ inflight = {}
    /\ writes = {}
    /\ store = <<>>
    /\ attempted = <<>>
    /\ call = NoCall
    /\ geo = NoGeo
    /\ memo = NoMemo
    /\ astronomicalData = <<>>
    /\ cityFilter = ""
    /\ startDate = Undefined
    /\ endDate = Undefined

\* Inputs: a single date, or a range from any moment of the days 1..MaxDay to
\* a day the calendar picked.  The engine's Date parsing matters only to
\* fetchSunriseSunsetData.
Init ==
    /\ location \in Locations
    /\ coordinator \in Coordinators
    /\ env \in FullEnv
    /\ dateMode \in {"single", "range"}
    /\ dateFrom \in 2..(2 * MaxDay + 1)
    /\ dateTo \in 2..(2 * MaxDay + 1)
    /\ date = dateFrom
    /\ dateTo % 2 = 0
    /\ dateMode = "single" => dateTo = dateFrom
    /\ coordinator = "fetchAstronimicalData" => env.impl = "invalid"
    /\ coordinator = "fetchAstronimicalData" => env.geocoder = "table"
    /\ Idle

Spec == Init /\ [][Next]_vars

\* The handler's continuations are run by the event loop once what they await
\* has settled, and every request and every insert is answered (with a
\* response or with a failure).  Nothing makes the user press the button.
Fairness ==
    /\ WF_vars(NetSettle)
    /\ WF_vars(AstroAwaitA)
    /\ WF_vars(AstroAwaitB)
    /\ WF_vars(SunAllSettled)
    /\ WF_vars(LoopBody)
    /\ WF_vars(InsertSettle)

SpecLive == Init /\ [][Next]_vars /\ Fairness

\* Long ranges, around the 30-day limit.  To keep the runs short each provider
\* and the store answer the same way throughout a behaviour.
CapEnvs ==
    { [A |-> {[kind |-> "ok", p |-> 1]}, B |-> {[kind |-> "neterr", p |-> 0]},
       ins |-> {"ok"}, impl |-> "invalid", geocoder |-> "table", again |-> StoreCap],
      [A |-> {[kind |-> "badjson", p |-> 0]}, B |-> {[kind |-> "ok", p |-> 1]},
       ins |-> {"error"}, impl |-> "lenient", geocoder |-> "service", again |-> StoreCap],
      [A |-> {[kind |-> "http", p |-> 0]}, B |-> {[kind |-> "notok", p |-> 0]},
       ins |-> {"ok"}, impl |-> "invalid", geocoder |-> "table", again |-> StoreCap] }

InitCap ==
    /\ location = "london"
    /\ coordinator \in Coordinators
    /\ env \in CapEnvs
    /\ dateMode = "range"
    /\ dateFrom \in {2, 3}
    /\ dateTo \in {2 * d : d \in (MaxDates - 1)..(MaxDates + CapOver)}
    /\ date = dateFrom
    /\ Idle

SpecCap == InitCap /\ [][Next]_vars

\* The same acquisition repeated: one place, one date, both providers answering.
RepeatEnvs ==
    {[A |-> [kind : {"ok"}, p : PayloadIdsA], B |-> {[kind |-> "ok", p |-> 1]},
      ins |-> {"ok", "error"}, impl |-> "lenient", geocoder |-> g, again |-> RepeatCap] :
        g \in Geocoders}

InitRepeat ==
    /\ location = "london"
    /\ coordinator \in Coordinators
    /\ env \in RepeatEnvs
    /\ dateMode = "single"
    /\ dateFrom = 2
    /\ dateTo = 2
    /\ date = 2
    /\ Idle

SpecRepeat == InitRepeat /\ [][Next]_vars

\* ---------------------------------------------------------------- analytics
toLowerCase(str) == IF str = "London" THEN "london" ELSE IF str = "LON" THEN "lon" ELSE str

\* Visualize's applyFilters, for one item whose date field parses to itemDate.
PassesFilters(loc, itemDate, tz) ==
    /\ cityFilter # "" => Includes(toLowerCase(loc), toLowerCase(cityFilter))
    /\ startDate.set =>
          (isAfter(itemDate, LocalMidnight(startDate.day, tz))
             \/ isSameDay(itemDate, LocalMidnight(startDate.day, tz), tz))
    /\ endDate.set =>
          (isBefore(itemDate, LocalMidnight(endDate.day, tz))
             \/ isSameDay(itemDate, LocalMidnight(endDate.day, tz), tz))

\* applyFilters(astronomicalData), as the stats and the scatter data call it:
\* the positions of the records it keeps.  item.date is the stored string.
applyFilters(data) ==
    {i \in 1..Len(data) : PassesFilters(data[i].location, ParseIsoDate(data[i].date), env.tz)}

\* (mutant) the fraction of a minute is dropped.
RoundMinutes_Floor(total, count) == total \div (60 * count)

\* Math.round(total / count / 60) for total >= 0.  The quotient is a whole
\* number and a half only when total / count is a whole number of seconds,
\* which both divisions then give exactly; otherwise it is at least
\* 1 / (60 * count) away from a half, far more than the divisions' rounding.
\* So the Number computed rounds as the exact quotient does, a half upwards.
RoundMinutes(total, count) == (2 * total + 60 * count) \div (120 * count)

\* Visualize's processedData: the records as the table shows them, the date
\* as toLocaleDateString writes it and the day length in whole minutes.
processedData(data) ==
    [i \in 1..Len(data) |->
        [location |-> data[i].location,
         date |-> toLocaleDateString(ParseIsoDate(data[i].date), env.tz, env.locale),
         dayLength |-> RoundMinutes(data[i].day_length, 1),
         latitude |-> data[i].latitude,
         longitude |-> data[i].longitude,
         source |-> data[i].source]]

\* applyFilters(processedData), as the table's sortedData calls it: an item's
\* date is the text toLocaleDateString wrote.
applyFiltersProcessed(processed) ==
    {i \in 1..Len(processed) :
        PassesFilters(processed[i].location, ParseSlashDate(processed[i].date, env.tz), env.tz)}

\* The records of the positions kept, in order.
RECURSIVE Keep(_, _, _)
Keep(data, kept, i) ==
    IF i > Len(data) THEN <<>>
    ELSE (IF i \in kept THEN <<data[i]>> ELSE <<>>) \o Keep(data, kept, i + 1)

Reverse(seq) == [i \in 1..Len(seq) |-> seq[Len(seq) + 1 - i]]

\* array.reduce((sum, x) => sum + x, 0) over Numbers.
RECURSIVE Sum(_, _)
Sum(xs, n) == IF n = 0 THEN Zero ELSE FAdd(Sum(xs, n - 1), xs[n])

\* item.latitude: the stored decimal (ten-thousandths here) as a Number.
LatitudeNumber(lat) == IF lat = 0 THEN Zero ELSE Ratio(Sign(lat), Abs(lat), 10000, 0)

\* item.day_length / 60: the day length in minutes.
Minutes(dayLength) == FDiv(FromInt(dayLength), FromInt(60))

NoInsight == [null |-> TRUE, nan |-> FALSE, correlation |-> 0]

\* Conclusions' latitudeInsight: Pearson's coefficient of latitude against day
\* length, to two decimals (correlation is in hundredths); null below three
\* records.
latitudeInsight(data) ==
    IF Len(data) < 3 THEN NoInsight
    ELSE
        LET n == FromInt(Len(data))
            latitudes == [i \in 1..Len(data) |-> LatitudeNumber(data[i].latitude)]
            dayLengths == [i \in 1..Len(data) |-> Minutes(data[i].day_length)]
            sumX == Sum(latitudes, Len(data))
            sumY == Sum(dayLengths, Len(data))
            sumXY == Sum([i \in 1..Len(data) |-> FMul(latitudes[i], dayLengths[i])], Len(data))
            sumXSquare == Sum([i \in 1..Len(data) |-> FMul(latitudes[i], latitudes[i])], Len(data))
            sumYSquare == Sum([i \in 1..Len(data) |-> FMul(dayLengths[i], dayLengths[i])], Len(data))
            numerator == FSub(FMul(n, sumXY), FMul(sumX, sumY))
            denominator == FSqrt(FMul(FSub(FMul(n, sumXSquare), FMul(sumX, sumX)),
                                      FSub(FMul(n, sumYSquare), FMul(sumY, sumY))))
            correlation == IF FIsZero(denominator) THEN Zero ELSE FDiv(numerator, denominator)
            fixed == ToFixed(correlation, 100)
        IN  [null |-> FALSE, nan |-> fixed.nan, correlation |-> fixed.v]

\* The locations of the records, in the order each is first met.
RECURSIVE LocationsOf(_, _)
LocationsOf(data, n) ==
    IF n = 0 THEN <<>>
    ELSE LET before == LocationsOf(data, n - 1)
         IN  IF \E i \in 1..Len(before) : before[i] = data[n].location
             THEN before ELSE Append(before, data[n].location)

RECURSIVE GroupOf(_, _, _)
GroupOf(data, loc, i) ==
    IF i > Len(data) THEN <<>>
    ELSE (IF data[i].location = loc THEN <<data[i]>> ELSE <<>>) \o GroupOf(data, loc, i + 1)

\* items.sort by date, ascending; the sort is stable.
RECURSIVE SortByDate(_)
SortByDate(items) ==
    IF Len(items) <= 1 THEN items
    ELSE LET rest == SortByDate(SubSeq(items, 1, Len(items) - 1))
             last == items[Len(items)]
             k == Cardinality({i \in 1..Len(rest) : rest[i].date <= last.date})
         IN  SubSeq(rest, 1, k) \o <<last>> \o SubSeq(rest, k + 1, Len(rest))

\* (mutant) every pair is divided by its days between, none or not.
RECURSIVE TotalChange_NoGuard(_, _)
TotalChange_NoGuard(items, i) ==
    IF i < 2 THEN Zero
    ELSE FAdd(TotalChange_NoGuard(items, i - 1),
              FDiv(FSub(Minutes(items[i].day_length), Minutes(items[i - 1].day_length)),
                   FromInt(items[i].date - items[i - 1].date)))

\* The loop over consecutive items: the change per day of each pair with days
\* between them, added up.
RECURSIVE TotalChange(_, _)
TotalChange(items, i) ==
    IF i < 2 THEN Zero
    ELSE LET prev == Minutes(items[i - 1].day_length)
             curr == Minutes(items[i].day_length)
             daysDiff == items[i].date - items[i - 1].date
         IN  IF daysDiff > 0
             THEN FAdd(TotalChange(items, i - 1), FDiv(FSub(curr, prev), FromInt(daysDiff)))
             ELSE TotalChange(items, i - 1)

\* One location's trend; changeRate is the number nan or a count of tenths of
\* a minute per day.
TrendOf(loc, items) ==
    LET sorted == SortByDate(items)
        avgChange == FDiv(TotalChange(sorted, Len(sorted)), FromInt(Len(sorted) - 1))
    IN  [location |-> loc,
         trend |-> IF FGt(avgChange, FromInt(1)) THEN "increasing"
                   ELSE IF FLt(avgChange, FNeg(FromInt(1))) THEN "decreasing"
                   ELSE "stable",
         nan |-> ToFixed(avgChange, 10).nan,
         changeRate |-> ToFixed(avgChange, 10).v]

\* sort by |changeRate|, largest first; the sort is stable.
RECURSIVE SortByRate(_)
SortByRate(trends) ==
    IF Len(trends) <= 1 THEN trends
    ELSE LET rest == SortByRate(SubSeq(trends, 1, Len(trends) - 1))
             last == trends[Len(trends)]
             k == Cardinality({i \in 1..Len(rest) : Abs(rest[i].changeRate) >= Abs(last.changeRate)})
         IN  SubSeq(rest, 1, k) \o <<last>> \o SubSeq(rest, k + 1, Len(rest))

RECURSIVE TrendsOf(_, _, _)
TrendsOf(data, locs, i) ==
    IF i > Len(locs) THEN <<>>
    ELSE LET items == GroupOf(data, locs[i], 1)
         IN  (IF Len(items) > 1 THEN <<TrendOf(locs[i], items)>> ELSE <<>>)
                \o TrendsOf(data, locs, i + 1)

\* Conclusions' locationTrends.
locationTrends(data) == SortByRate(TrendsOf(data, LocationsOf(data, Len(data)), 1))

\* new Date(item.date).getMonth() and the season the code derives from it: the
\* month (0 to 11) of the record's date in the browser's zone.
SeasonOf(item, tz) ==
    LET month == MonthOf(LocalDay(ParseIsoDate(item.date), tz)) - 1
    IN  IF month >= 2 /\ month <= 4 THEN "Spring"
        ELSE IF month >= 5 /\ month <= 7 THEN "Summer"
        ELSE IF month >= 8 /\ month <= 10 THEN "Fall"
        ELSE "Winter"

\* monthGroups[season]: the records pushed to a season, in order.
RECURSIVE SeasonGroup(_, _, _, _)
SeasonGroup(data, season, tz, i) ==
    IF i > Len(data) THEN <<>>
    ELSE (IF SeasonOf(data[i], tz) = season THEN <<data[i]>> ELSE <<>>)
            \o SeasonGroup(data, season, tz, i + 1)

\* items.reduce((sum, item) => sum + item.day_length, 0): a sum of whole
\* seconds, exact in a Number.
RECURSIVE TotalDayLength(_, _)
TotalDayLength(items, n) ==
    IF n = 0 THEN 0 ELSE TotalDayLength(items, n - 1) + items[n].day_length

\* locationAvgs: a location's total over its count (avg = total / count / 60),
\* the locations in the order first met among the season's items.
LocationAvgs(items) ==
    LET locs == LocationsOf(items, Len(items))
    IN  [k \in 1..Len(locs) |->
            [location |-> locs[k],
             total |-> TotalDayLength(GroupOf(items, locs[k], 1), Len(GroupOf(items, locs[k], 1))),
             count |-> Len(GroupOf(items, locs[k], 1))]]

\* a.avg >= b.avg: the two quotients are rounded alike, so they compare as
\* the exact fractions do.
AvgAtLeast(a, b) == a.total * b.count >= b.total * a.count

\* locationAvgs.sort((a, b) => b.avg - a.avg): largest first; the sort is
\* stable.
RECURSIVE SortByAvg(_)
SortByAvg(avgs) ==
    IF Len(avgs) <= 1 THEN avgs
    ELSE LET rest == SortByAvg(SubSeq(avgs, 1, Len(avgs) - 1))
             last == avgs[Len(avgs)]
             k == Cardinality({i \in 1..Len(rest) : AvgAtLeast(rest[i], last)})
         IN  SubSeq(rest, 1, k) \o <<last>> \o SubSeq(rest, k + 1, Len(rest))

\* (mutant) every location is reported, not the first three.
TopLocations_All(avgs) == [k \in 1..Len(avgs) |-> avgs[k].location]

\* slice(0, 3).map((item) => item.location)
TopLocations(avgs) ==
    [k \in 1..(IF Len(avgs) < 3 THEN Len(avgs) ELSE 3) |-> avgs[k].location]

SeasonalPatternOf(season, items) ==
    [season |-> season,
     avgDayLength |-> RoundMinutes(TotalDayLength(items, Len(items)), Len(items)),
     locations |-> TopLocations(SortByAvg(LocationAvgs(items)))]

\* seasonOrder: the patterns are sorted Winter, Spring, Summer, Fall.
seasonOrder == <<"Winter", "Spring", "Summer", "Fall">>

RECURSIVE PatternsFrom(_, _, _)
PatternsFrom(data, tz, k) ==
    IF k > Len(seasonOrder) THEN <<>>
    ELSE LET items == SeasonGroup(data, seasonOrder[k], tz, 1)
         IN  (IF Len(items) > 0 THEN <<SeasonalPatternOf(seasonOrder[k], items)>> ELSE <<>>)
                \o PatternsFrom(data, tz, k + 1)

\* Conclusions' seasonalPatterns.
seasonalPatterns(data, tz) == PatternsFrom(data, tz, 1)

\* a.dayLength - b.dayLength, negated for "desc".
ComesBefore(a, b, sortOrder) ==
    IF sortOrder = "asc" THEN a.dayLength <= b.dayLength ELSE a.dayLength >= b.dayLength

\* array.sort by day length; the sort is stable.
RECURSIVE SortByDayLength(_, _)
SortByDayLength(items, sortOrder) ==
    IF Len(items) <= 1 THEN items
    ELSE LET rest == SortByDayLength(SubSeq(items, 1, Len(items) - 1), sortOrder)
             last == items[Len(items)]
             k == Cardinality({i \in 1..Len(rest) : ComesBefore(rest[i], last, sortOrder)})
         IN  SubSeq(rest, 1, k) \o <<last>> \o SubSeq(rest, k + 1, Len(rest))

\* Visualize's sortedData: [...filteredData].sort(...), a sorted copy.
sortedData(processed, sortOrder) ==
    SortByDayLength(Keep(processed, applyFiltersProcessed(processed), 1), sortOrder)

\* processedData after sortedData ran: the spread made a copy, so as before.
ProcessedAfterSort_InPlace(processed, sortOrder) == SortByDayLength(processed, sortOrder)

ProcessedAfterSort(processed, sortOrder) == processed

RECURSIVE MaxDayLength(_, _)
MaxDayLength(items, n) ==
    IF n = 1 THEN items[1].day_length
    ELSE IF items[n].day_length > MaxDayLength(items, n - 1)
         THEN items[n].day_length ELSE MaxDayLength(items, n - 1)

RECURSIVE MinDayLength(_, _)
MinDayLength(items, n) ==
    IF n = 1 THEN items[1].day_length
    ELSE IF items[n].day_length < MinDayLength(items, n - 1)
         THEN items[n].day_length ELSE MinDayLength(items, n - 1)

\* The sources of the records, in the order each is first met.
RECURSIVE SourcesOf(_, _)
SourcesOf(data, n) ==
    IF n = 0 THEN <<>>
    ELSE LET before == SourcesOf(data, n - 1)
         IN  IF \E i \in 1..Len(before) : before[i] = data[n].source
             THEN before ELSE Append(before, data[n].source)

NoStats == [null |-> TRUE]

\* Visualize's stats over the filtered records: mean, maximum and minimum in
\* whole minutes, the average of each location and the count of each source.
stats(data) ==
    LET filteredData == Keep(data, applyFilters(data), 1)
        locs == LocationsOf(filteredData, Len(filteredData))
        srcs == SourcesOf(filteredData, Len(filteredData))
    IN  IF Len(filteredData) = 0 THEN NoStats
        ELSE [null |-> FALSE,
              avgDayLength |-> RoundMinutes(TotalDayLength(filteredData, Len(filteredData)),
                                            Len(filteredData)),
              maxDayLength |-> RoundMinutes(MaxDayLength(filteredData, Len(filteredData)), 1),
              minDayLength |-> RoundMinutes(MinDayLength(filteredData, Len(filteredData)), 1),
              locationStats |->
                  [k \in 1..Len(locs) |->
                      [location |-> locs[k],
                       avgDayLength |->
                           RoundMinutes(TotalDayLength(GroupOf(filteredData, locs[k], 1),
                                                       Len(GroupOf(filteredData, locs[k], 1))),
                                        Len(GroupOf(filteredData, locs[k], 1)))]],
              sourceData |->
                  [k \in 1..Len(srcs) |->
                      [name |-> srcs[k],
                       value |-> Cardinality({i \in 1..Len(filteredData) :
                                                 filteredData[i].source = srcs[k]})]]]

pageVars == <<location, dateMode, date, dateFrom, dateTo, coordinator, env, geo, loopVars,
              coords, datesToProcess, completedDates, apiResponses, saveIdx, rangeWarning,
              writes, store, call>>

\* fetchData of Visualize (getAstronomicalData: newest first) and of
\* Conclusions (select "*": in the order the store gives).
fetchData ==
    /\ \E order \in {"stored", "created_at desc"} :
          astronomicalData' = IF order = "stored" THEN store ELSE Reverse(store)
    /\ memo' = NoMemo
    /\ UNCHANGED <<pageVars, cityFilter, startDate, endDate>>

CityFilters == {"", "LON", "phoenix"}

FilterDays == {152, 155}

setCityFilter ==
    /\ \E v \in CityFilters : cityFilter' = v
    /\ UNCHANGED <<pageVars, astronomicalData, startDate, endDate, memo>>

setStartDate ==
    /\ \E d \in FilterDays : startDate' = Picked(d)
    /\ UNCHANGED <<pageVars, astronomicalData, cityFilter, endDate, memo>>

setEndDate ==
    /\ \E d \in FilterDays : endDate' = Picked(d)
    /\ UNCHANGED <<pageVars, astronomicalData, cityFilter, startDate, memo>>

handleClearFilters ==
    /\ cityFilter' = ""
    /\ startDate' = Undefined
    /\ endDate' = Undefined
    /\ UNCHANGED <<pageVars, astronomicalData, memo>>

NextAnalytics ==
    \/ fetchData
    \/ setCityFilter
    \/ setStartDate
    \/ setEndDate
    \/ handleClearFilters

\* The rows the store may hold: a place's coordinates, a date, a day length
\* in seconds and the source.
SampleRow(loc, at, day, dayLength, src) ==
    [location |-> loc, latitude |-> at.lat, longitude |-> at.lng, date |-> day,
     sunrise |-> 24 * 3600 * day + 6 * 3600,
     sunset |-> 24 * 3600 * day + 6 * 3600 + dayLength,
     day_length |-> dayLength, solar_noon |-> 24 * 3600 * day + 12 * 3600, source |-> src]

SampleRowList ==
    << SampleRow("phoenix", Coords(334484, -1120740), 152, 36000, SourceA),
      SampleRow("phoenix", Coords(334484, -1120740), 153, 36600, SourceA),
      SampleRow("phoenix", Coords(334484, -1120740), 165, 16350, SourceB),
      SampleRow("london", Coords(515074, -1278), 152, 30544, SourceA),
      SampleRow("London", Coords(515074, -1278), 155, 30724, SourceA),
      SampleRow("london", Coords(515074, -1278), 155, 30724, SourceB),
      SampleRow("london", Coords(515074, -1278), 152, 30004, SourceB),
      SampleRow("Oslo", Coords(599139, 107522), 152, 64800, SourceA),
      SampleRow("Oslo", Coords(599139, 107522), 335, 21600, SourceA) >>

SampleRows == {SampleRowList[i] : i \in 1..Len(SampleRowList)}

\* The stores of up to max different rows, in the order of the list.
SampleStores(max) ==
    {Keep(SampleRowList, rows, 1) :
        rows \in {kept \in SUBSET (1..Len(SampleRowList)) : Cardinality(kept) <= max}}

AnalyticsEnvs ==
    {[A |-> {}, B |-> {}, ins |-> {}, impl |-> "invalid", geocoder |-> "table",
      again |-> StoreCap, tz |-> tz, locale |-> locale] :
        tz \in {-5, 1}, locale \in {"en-US", "en-GB"}}

AnalyticsInit(stores, envs) ==
    /\ location = "london"
    /\ coordinator = "fetchSunriseSunsetData"
    /\ env \in envs
    /\ dateMode = "single"
    /\ dateFrom = 2
    /\ dateTo = 2
    /\ date = 2
    /\ isLoading = FALSE
    /\ progress = 0
    /\ pc = "idle"
    /\ coords = Null
    /\ datesToProcess = <<>>
    /\ idx = 0
    /\ completedDates = 0
    /\ apiResponses = <<>>
    /\ saveIdx = 0
    /\ report = NoReport
    /\ rangeWarning = FALSE
    /\ cpc = "none"
    /\ resp = NoResponses
    /\ results = <<>>
    /\ inflight = {}
    /\ writes = {}
    /\ store \in stores
    /\ attempted = <<>>
    /\ call = NoCall
    /\ geo = NoGeo
    /\ memo = NoMemo
    /\ astronomicalData = <<>>
    /\ cityFilter = ""
    /\ startDate = Undefined
    /\ endDate = Undefined

InitAnalytics == AnalyticsInit(SampleStores(MaxRecords), AnalyticsEnvs)

SpecAnalytics == InitAnalytics /\ [][NextAnalytics]_vars

\* The record list after locationTrends ran.  items.sort sorts the array of a
\* group, which the reduce built; the list itself is not touched.
InputAfterTrends_SortInPlace(data) == SortByDate(data)

InputAfterTrends(data) == data

\* Conclusions renders: its three useMemo callbacks run over the records.
\* The records are the state of the one page that loaded them.
ConclusionsRender ==
    /\ ~memo.V.done
    /\ memo.C.runs < MaxRuns
    /\ memo' = [memo EXCEPT !.C =
                    [done |-> TRUE,
                     runs |-> memo.C.runs + 1,
                     latitudeInsight |-> latitudeInsight(astronomicalData),
                     seasonalPatterns |-> seasonalPatterns(astronomicalData, env.tz),
                     locationTrends |-> locationTrends(astronomicalData)]]
    /\ astronomicalData' = InputAfterTrends(astronomicalData)
    /\ UNCHANGED <<pageVars, cityFilter, startDate, endDate>>

SortOrders == {"asc", "desc"}

\* Visualize renders with the table sorted by day length in sortOrder.
\* processedData is recomputed when the records changed, and is the cached
\* value otherwise.
VisualizeRender ==
    /\ ~memo.C.done
    /\ memo.V.runs < MaxRuns
    /\ \E sortOrder \in SortOrders :
          LET processed == IF memo.V.done THEN memo.V.processedData
                           ELSE processedData(astronomicalData)
          IN  memo' = [memo EXCEPT !.V =
                          [done |-> TRUE,
                           runs |-> memo.V.runs + 1,
                           sortOrder |-> sortOrder,
                           processedData |-> ProcessedAfterSort(processed, sortOrder),
                           sortedData |-> sortedData(processed, sortOrder),
                           stats |-> stats(astronomicalData)]]
    /\ UNCHANGED <<pageVars, astronomicalData, cityFilter, startDate, endDate>>

NextEngine ==
    \/ fetchData
    \/ ConclusionsRender
    \/ VisualizeRender

EngineEnvs == {e \in AnalyticsEnvs : e.locale = "en-US"}

InitEngine == AnalyticsInit(SampleStores(MaxInsightRecords), EngineEnvs)

SpecEngine == InitEngine /\ [][NextEngine]_vars

\* A geocoder called on its own, for each place name and each answer of the
\* lookup service.
GeoNames == {" ", "london", "paris", "new york", "york", "lon", "par", "london bridge",
             "sparta", "atlantis", "oslo", "athens", "rome", "el dorado"}

\* Index.tsx's getCoordinates(location): synchronous.
TableGetCoordinates ==
    /\ geo.pc = "idle"
    /\ geo' = [geo EXCEPT !.pc = "done", !.impl = "table", !.out = getCoordinates(location)]
    /\ UNCHANGED <<location, dateMode, date, dateFrom, dateTo, coordinator, env>>
    /\ UNCHANGED <<loopVars, coords, datesToProcess, completedDates, apiResponses,
                   saveIdx, rangeWarning, writes, store, call>>
    /\ UNCHANGED <<astronomicalData, cityFilter, startDate, endDate, memo>>

\* services/geocoding.ts getCoordinates(location), up to its first await: an
\* exact match of the table is returned, otherwise the lookup is requested.
ServiceGetCoordinates ==
    /\ geo.pc = "idle"
    /\ LET normalized == Trim(location)
           exact == {k \in 1..Len(cityCoordinates) : cityCoordinates[k].city = normalized}
       IN  geo' = IF exact # {}
                  THEN [geo EXCEPT !.pc = "done", !.impl = "service",
                                   !.out = cityCoordinates[CHOOSE k \in exact : TRUE].at]
                  ELSE [geo EXCEPT !.pc = "fetching", !.impl = "service"]
    /\ UNCHANGED <<location, dateMode, date, dateFrom, dateTo, coordinator, env>>
    /\ UNCHANGED <<loopVars, coords, datesToProcess, completedDates, apiResponses,
                   saveIdx, rangeWarning, writes, store, call>>
    /\ UNCHANGED <<astronomicalData, cityFilter, startDate, endDate, memo>>

\* The lookup settles and services/geocoding.ts getCoordinates runs to its end.
LookupSettle ==
    /\ geo.pc = "fetching"
    /\ \E r \in LookupResponses :
         LET c == GeoCatch(GeoTry(Trim(location), r), Trim(location))
         IN  geo' = [geo EXCEPT !.pc = "done", !.resp = r, !.threw = c.threw,
                                !.out = c.out, !.toast = c.toast]
    /\ UNCHANGED <<location, dateMode, date, dateFrom, dateTo, coordinator, env>>
    /\ UNCHANGED <<loopVars, coords, datesToProcess, completedDates, apiResponses,
                   saveIdx, rangeWarning, writes, store, call>>
    /\ UNCHANGED <<astronomicalData, cityFilter, startDate, endDate, memo>>

NextGeo ==
    \/ TableGetCoordinates
    \/ ServiceGetCoordinates
    \/ LookupSettle

InitGeo ==
    /\ location \in GeoNames
    /\ coordinator = "fetchSunriseSunsetData"
    /\ env = CHOOSE e \in FullEnv : e.geocoder = "service" /\ e.impl = "invalid"
    /\ dateMode = "single"
    /\ dateFrom = 2
    /\ dateTo = 2
    /\ date = 2
    /\ Idle

SpecGeo == InitGeo /\ [][NextGeo]_vars

\* ------------------------------------------------------------------- claims
\* What a response is, told from the response alone: a provider succeeds when
\* its body has status "OK" and every field of it can be parsed.
SucceedsA(r) == r.kind = "ok"

SucceedsB(r) ==
    /\ r.kind = "ok"
    /\ PayloadB(r.p).sunrise.ok /\ PayloadB(r.p).sunset.ok /\ PayloadB(r.p).solar_noon.ok

AstroEnded == pc = "fetched" /\ call.coordinator = "fetchAstronimicalData"

C2_AllSettleFanOut ==
    /\ cpc \in {"awaitA", "awaitB", "allSettled"} =>
         \A p \in {"A", "B"} :
            [prov |-> p, date |-> datesToProcess[idx]] \in inflight \/ resp[p] # NoResp
    /\ pc = "fetched" =>
         /\ call.respA # NoResp
         /\ call.respB # NoResp
         /\ \A req \in inflight : req.date # call.day

\* A coordinator has returned after Provider A's request was rejected and
\* Provider B's succeeded.
C2_Witness ==
    /\ pc = "fetched"
    /\ call.respA.kind = "neterr"
    /\ SucceedsB(call.respB)
    /\ inflight = {}

\* C3: a coordinator's call ends with an empty result and the "API Error"
\* toast only when every provider failed: if a provider delivered a
\* successful, parsable response the result is not empty and no toast was
\* shown; and an empty result always comes with the toast.
C3_TotalFailureOnly ==
    pc = "fetched" =>
      /\ (SucceedsA(call.respA) \/ SucceedsB(call.respB)) =>
            (call.results # <<>> /\ ~call.warned)
      /\ call.results = <<>> => call.warned

\* C4: no row of the store has sunrise >= sunset.
C4_NoInvertedRowStored == \A i \in 1..Len(store) : store[i].sunrise < store[i].sunset

\* C5: every row of the store has |(sunset - sunrise) - day_length| <= 1 second.
C5_DayLengthConsistent ==
    \A i \in 1..Len(store) :
       Abs((store[i].sunset - store[i].sunrise) - store[i].day_length) <= 1

\* The UTC instant of a local wall-clock time on a date, for a zone whose
\* offset from UTC is utcOffset minutes: local = UTC + offset.
WallClockSeconds(c) == ((c.h % 12) + (IF c.modifier = "PM" THEN 12 ELSE 0)) * 3600 + c.m * 60 + c.s

LocalToUtc(day, c, utcOffset) == day * 24 * 3600 + WallClockSeconds(c) - utcOffset * 60

\* C6: Provider B's times, as fetchAstronimicalData returns them, are the local
\* wall-clock times on the report date converted to UTC with utc_offset; so
\* "06:00:00 AM" with utc_offset -240 is 10:00:00Z of that date.
C6_ProviderBLocalToUtc ==
    (AstroEnded /\ SucceedsB(call.respB)) =>
       \A i \in 1..Len(call.results) :
          call.results[i].source = SourceB =>
             LET b == PayloadB(call.respB.p) IN
             /\ call.results[i].data.sunrise = LocalToUtc(call.day, b.sunrise, b.utc_offset)
             /\ call.results[i].data.sunset = LocalToUtc(call.day, b.sunset, b.utc_offset)
             /\ call.results[i].data.solar_noon = LocalToUtc(call.day, b.solar_noon, b.utc_offset)

\* C7: the loop attempts every date of the list exactly once and in order,
\* whatever the earlier dates gave: while it runs, the dates attempted are the
\* list up to the current date, and it ends only with the Success toast, after
\* the whole list.
C7_EveryDateAttempted ==
    /\ pc \in {"fetching", "fetched", "saving"} =>
          /\ idx \in 1..Len(datesToProcess)
          /\ attempted = SubSeq(datesToProcess, 1, idx)
    /\ (pc = "idle" /\ attempted # <<>>) =>
          /\ report.title = "Success"
          /\ attempted = datesToProcess

\* A two-date acquisition has ended; its first date gave no result (both
\* providers failed) and its second date gave a row.
C7_Witness ==
    /\ pc = "idle"
    /\ report.title = "Success"
    /\ Len(datesToProcess) = 2
    /\ attempted = datesToProcess
    /\ completedDates = 1
    /\ store # <<>>
    /\ \A i \in 1..Len(store) : store[i].date = datesToProcess[2]

\* C8: the count the closing Success toast states is the number of dates for
\* which at least one result was obtained.
C8_ReportedCountIsSucceeded ==
    (pc = "idle" /\ report.title = "Success") => report.count = completedDates

\* C9: dates are processed one after another: at most two provider requests
\* are in flight, all for the current date, and none while an insert is
\* pending; at most one insert is pending, and only while the loop waits for it.
C9_SequentialDates ==
    /\ Cardinality(inflight) <= 2
    /\ inflight # {} =>
          /\ pc = "fetching"
          /\ writes = {}
          /\ \A req \in inflight : req.date = datesToProcess[idx]
    /\ writes # {} =>
          /\ pc = "saving"
          /\ Cardinality(writes) = 1

\* The second date's fan-out is in flight after the first date's row was stored.
C9_Witness ==
    /\ pc = "fetching"
    /\ idx = 2
    /\ Cardinality(inflight) = 2
    /\ store # <<>>
    /\ writes = {}

\* C10: in range mode an acquisition processes the days of the range from its
\* start, all of them when they are 30 or fewer and the first 30 (with the
\* warning) when they are more; never more than 30.
C10_ThirtyDayLimit ==
    (dateMode = "range" /\ coords.found) =>
       LET n == DayOf(dateTo) - DayOf(dateFrom) + 1 IN
       /\ Len(datesToProcess) = (IF n > 30 THEN 30 ELSE n)
       /\ \A i \in 1..Len(datesToProcess) : datesToProcess[i] = DayOf(dateFrom) + i - 1
       /\ rangeWarning <=> n > 30
       /\ Len(attempted) <= 30
       /\ (pc = "idle" /\ report.title = "Success") => attempted = datesToProcess

\* An acquisition over a range of more than 30 days has ended.
C10_Witness ==
    /\ pc = "idle"
    /\ report.title = "Success"
    /\ DayOf(dateTo) - DayOf(dateFrom) + 1 > 30
    /\ Len(attempted) = 30
    /\ attempted[30] = DayOf(dateFrom) + 29
    /\ rangeWarning

\* C11: progress is cumulative over the dates that have settled, with or
\* without data: when the loop begins its k+1-th date of N, the progress shown
\* is floor(k / N * 100).
C11_ProgressCumulative ==
    (pc = "fetching" /\ idx >= 1) =>
        progress = ((idx - 1) * 100) \div Len(datesToProcess)

\* C12: a failed insert stops nothing.  From the coordinator's results the
\* loop issues the insert of the first; whatever the store answers to an
\* insert, the insert of the next result of the date is issued, and after the
\* last one the loop goes on to the next date (or ends with Success).
C12_PersistenceFailureIsolated ==
    [][ /\ (pc = "fetched" /\ ~call.threw /\ call.results # <<>>) =>
              /\ pc' = "saving"
              /\ apiResponses' = call.results
              /\ saveIdx' = 1
              /\ writes' = {AstronomicalRow(call.results[1], location, coords,
                                            datesToProcess[idx])}
        /\ (pc = "saving" /\ saveIdx < Len(apiResponses)) =>
              /\ pc' = "saving"
              /\ saveIdx' = saveIdx + 1
              /\ writes' = {AstronomicalRow(apiResponses[saveIdx + 1], location, coords,
                                            datesToProcess[idx])}
        /\ (pc = "saving" /\ saveIdx = Len(apiResponses)) =>
              IF idx < Len(datesToProcess)
              THEN pc' = "fetching" /\ idx' = idx + 1
              ELSE pc' = "idle" /\ report'.title = "Success" ]_vars

\* The insert of the second result of a date is pending after the insert of
\* the first one failed (the store was empty when the acquisition began).
C12_Witness ==
    /\ pc = "saving"
    /\ saveIdx = 2
    /\ store = <<>>
    /\ \E row \in writes : row.source = SourceB

\* A place name that the geocoder's table cannot resolve: it is not blank, it
\* equals no city of the table and is in no substring relation with one.
Unresolvable(name) ==
    /\ Trim(name) # ""
    /\ \A k \in 1..Len(cityCoordinates) :
          /\ ~Includes(Trim(name), cityCoordinates[k].city)
          /\ ~Includes(cityCoordinates[k].city, Trim(name))

\* C13: for a place name that cannot be resolved the acquisition aborts:
\* no coordinator is called, no provider request is issued, no row is
\* appended and no Success is reported.
C13_UnresolvedPlaceAborts ==
    Unresolvable(location) =>
       /\ attempted = <<>>
       /\ inflight = {}
       /\ writes = {}
       /\ store = <<>>
       /\ report.title # "Success"

\* The live lookup gave a place.
LookupResolved(r) == r.kind = "ok" /\ Len(LookupPayload(r.p)) > 0

\* C14: a geocoder's call for a place name that the table cannot resolve and
\* that no live lookup resolved ends with null, never with a city's coordinates.
C14_NoSilentDefault ==
    (geo.pc = "done" /\ Unresolvable(location) /\ ~LookupResolved(geo.resp)) =>
        geo.out = Null

\* C15: a call of services/geocoding.ts getCoordinates always returns, whatever
\* the lookup does: no exception leaves it, and what it returns is null, a
\* place of the table or the first place the lookup listed.
C15_GeocoderNeverRaises ==
    (geo.pc = "done" /\ geo.impl = "service") =>
        /\ ~geo.threw
        /\ \/ geo.out = Null
           \/ \E k \in 1..Len(cityCoordinates) : geo.out = cityCoordinates[k].at
           \/ /\ LookupResolved(geo.resp)
              /\ geo.out = Coords(LookupPayload(geo.resp.p)[1].lat,
                                  LookupPayload(geo.resp.p)[1].lon)

\* The lookup's body could not be parsed and the name matches nothing: the
\* call returned null, with the "Geocoding Error" toast.
C15_Witness ==
    /\ geo.pc = "done"
    /\ geo.impl = "service"
    /\ geo.resp.kind = "badjson"
    /\ Unresolvable(location)
    /\ geo.out = Null
    /\ geo.toast = "Geocoding Error"

\* C16: no dedup and no merge.  Every row stored or being stored is the
\* acquisition's location, coordinates and current date with the source of its
\* result; the results of a date have different sources and each gets one
\* insert, so a date's inserts are as many as its results; and an insert only
\* ever appends, leaving the rows already stored as they are.
C16_NoDedupNoMerge ==
    /\ [](/\ \A i \in 1..Len(store) :
               /\ store[i].location = location
               /\ store[i].latitude = coords.lat
               /\ store[i].longitude = coords.lng
               /\ store[i].source \in {SourceA, SourceB}
          /\ pc = "saving" =>
               /\ saveIdx \in 1..Len(apiResponses)
               /\ writes = {AstronomicalRow(apiResponses[saveIdx], location, coords,
                                            datesToProcess[idx])}
               /\ \A i, j \in 1..Len(apiResponses) :
                     apiResponses[i].source = apiResponses[j].source => i = j)
    /\ [][ /\ \/ store' = store
              \/ \E row \in writes : store' = Append(store, row)
           /\ (pc = "fetched" /\ pc' = "saving") => (apiResponses' = call.results /\ saveIdx' = 1)
           /\ (pc = "saving" /\ pc' = "saving") => saveIdx' = saveIdx + 1
           /\ (pc = "saving" /\ pc' # "saving") => saveIdx = Len(apiResponses) ]_vars

\* The acquisition was repeated and the store holds the same record twice.
C16_Witness ==
    \E i, j \in 1..Len(store) : i < j /\ store[i] = store[j]


\* The records each view works on: the table (sortedData), Visualize's stats,
\* per-location, per-source and scatter data, and Conclusions' three insights.
TableRecords == applyFiltersProcessed(processedData(astronomicalData))

StatsRecords == applyFilters(astronomicalData)

ConclusionsRecords == 1..Len(astronomicalData)

\* C17: for any filter setting, the aggregate stats, per-location averages,
\* per-source distribution, scatter data, latitude correlation, per-location
\* trends and seasonal patterns are all computed over exactly the records the
\* table view shows.
C17_FiltersAppliedToEveryStatistic ==
    /\ StatsRecords = TableRecords
    /\ ConclusionsRecords = TableRecords

\* C18: given fewer than 3 records, the empty set included, the latitude
\* correlation returns the coefficient 0: not NaN and not a missing value.
C18_CorrelationZeroBelowThree ==
    Len(astronomicalData) < 3 =>
        /\ ~latitudeInsight(astronomicalData).null
        /\ ~latitudeInsight(astronomicalData).nan
        /\ latitudeInsight(astronomicalData).correlation = 0

NoVariance(data) ==
    \/ \A i, j \in 1..Len(data) : data[i].latitude = data[j].latitude
    \/ \A i, j \in 1..Len(data) : data[i].day_length = data[j].day_length

\* C19: for 3 or more records the latitude correlation coefficient lies in
\* [-1, 1], and it is 0 when all latitudes are equal or all day lengths are
\* equal.
C19_CorrelationInRange ==
    Len(astronomicalData) >= 3 =>
        /\ ~latitudeInsight(astronomicalData).null
        /\ ~latitudeInsight(astronomicalData).nan
        /\ latitudeInsight(astronomicalData).correlation \in -100..100
        /\ NoVariance(astronomicalData) => latitudeInsight(astronomicalData).correlation = 0

\* The mean the trend is said to be, as the exact fraction MeanNum / MeanDen
\* of minutes per day: the sum over consecutive pairs of (seconds difference)
\* / (60 * days between), over the number of pairs.
RECURSIVE GapProduct(_, _)
GapProduct(items, i) ==
    IF i < 2 THEN 1 ELSE GapProduct(items, i - 1) * (items[i].date - items[i - 1].date)

RECURSIVE RateSum(_, _)
RateSum(items, i) ==
    IF i < 2 THEN 0
    ELSE RateSum(items, i - 1)
           + (items[i].day_length - items[i - 1].day_length)
               * (GapProduct(items, Len(items)) \div (items[i].date - items[i - 1].date))

MeanNum(items) == RateSum(items, Len(items))

MeanDen(items) == 60 * (Len(items) - 1) * GapProduct(items, Len(items))

DatesDistinct(items) == \A i, j \in 1..Len(items) : items[i].date = items[j].date => i = j

\* C20: for every location with at least 2 records (on distinct dates) the
\* change rate is the arithmetic mean, over the consecutive pairs of its
\* records by date, of minutes difference / days between, to one decimal, and
\* the direction is increasing when that mean is > 1, decreasing when it is
\* < -1 and stable otherwise.
C20_TrendIsMeanOfRates ==
    \A loc \in {astronomicalData[i].location : i \in 1..Len(astronomicalData)} :
        LET items == SortByDate(GroupOf(astronomicalData, loc, 1))
            trends == locationTrends(astronomicalData)
        IN  Len(items) >= 2 /\ DatesDistinct(items) =>
                \E k \in 1..Len(trends) :
                    /\ trends[k].location = loc
                    /\ trends[k].trend = (IF MeanNum(items) > MeanDen(items) THEN "increasing"
                                          ELSE IF MeanNum(items) < -MeanDen(items) THEN "decreasing"
                                          ELSE "stable")
                    /\ 2 * Abs(10 * MeanNum(items) - trends[k].changeRate * MeanDen(items))
                          <= MeanDen(items)

\* The season of a calendar date "yyyy-MM-dd", by its month (1 to 12).
CalendarSeason(day) ==
    IF MonthOf(day) \in {12, 1, 2} THEN "Winter"
    ELSE IF MonthOf(day) \in {3, 4, 5} THEN "Spring"
    ELSE IF MonthOf(day) \in {6, 7, 8} THEN "Summer"
    ELSE "Fall"

RECURSIVE CalendarGroup(_, _, _)
CalendarGroup(data, season, i) ==
    IF i > Len(data) THEN <<>>
    ELSE (IF CalendarSeason(data[i].date) = season THEN <<data[i]>> ELSE <<>>)
            \o CalendarGroup(data, season, i + 1)

\* C21: every record is in exactly one season bucket, the one of the month of
\* its calendar date (December to February Winter, March to May Spring, June
\* to August Summer, September to November Fall), and a season's average is
\* that of the records whose date is in it: Oslo 2024-06-01 (64800 s) and
\* Oslo 2024-12-01 (21600 s) give Summer 1080 and Winter 360.
C21_SeasonByCalendarMonth ==
    /\ \A i \in 1..Len(astronomicalData) :
          SeasonOf(astronomicalData[i], env.tz) = CalendarSeason(astronomicalData[i].date)
    /\ \A k \in 1..Len(seasonOrder) :
          LET members == CalendarGroup(astronomicalData, seasonOrder[k], 1)
              patterns == seasonalPatterns(astronomicalData, env.tz)
          IN  Len(members) > 0 =>
                \E p \in 1..Len(patterns) :
                    /\ patterns[p].season = seasonOrder[k]
                    /\ patterns[p].avgDayLength
                          = RoundMinutes(TotalDayLength(members, Len(members)), Len(members))

\* What a page's callbacks returned, without the count of its renders.
Returned_C(m) == [m.C EXCEPT !.runs = 0]

Returned_V(m) == [m.V EXCEPT !.runs = 0]

C22_WitnessVisualize ==
    /\ memo.V.runs = 2
    /\ Len(astronomicalData) >= 3
    /\ ~memo.V.stats.null
    /\ memo.V.sortedData # memo.V.processedData

C23_WitnessTrends ==
    /\ memo.C.done
    /\ Len(memo.C.locationTrends) > 0
    /\ \E loc \in {astronomicalData[i].location : i \in 1..Len(astronomicalData)} :
          SortByDate(GroupOf(astronomicalData, loc, 1)) # GroupOf(astronomicalData, loc, 1)

SunEnded == pc = "fetched" /\ call.coordinator = "fetchSunriseSunsetData"

\* C24: when fetchSunriseSunsetData has ended for a date, a provider whose
\* response is successful and parsable has its result in the returned list,
\* whatever the other provider's outcome was (a body that cannot be parsed
\* included).
C24_SunFailureLocal ==
    SunEnded =>
      /\ SucceedsB(call.respB) =>
            \E i \in 1..Len(call.results) : call.results[i].source = SourceB
      /\ SucceedsA(call.respA) =>
            \E i \in 1..Len(call.results) : call.results[i].source = SourceA

\* C25: in fetchAstronimicalData no retry is made and the sources are
\* distinct.  Requests are issued only when the call for a date starts, one to
\* each provider for that date; and the list the call returns has at most one
\* result of each provider, so at most two, of different sources.
C25_NoRetryDistinctSources ==
    /\ [](AstroEnded =>
            /\ Len(call.results) <= 2
            /\ \A i \in 1..Len(call.results) : call.results[i].source \in {SourceA, SourceB}
            /\ \A i, j \in 1..Len(call.results) :
                  call.results[i].source = call.results[j].source => i = j)
    /\ [][ (coordinator = "fetchAstronimicalData" /\ ~(inflight' \subseteq inflight)) =>
             /\ pc # "fetching"
             /\ pc' = "fetching"
             /\ \A p \in {"A", "B"} :
                   Cardinality({req \in inflight' \ inflight : req.prov = p}) = 1
             /\ \A req \in inflight' \ inflight : req.date = datesToProcess'[idx'] ]_vars

\* Provider A failed, nothing is in flight any more and the call has returned
\* Provider B's result alone.
C25_Witness ==
    /\ AstroEnded
    /\ call.respA.kind = "neterr"
    /\ inflight = {}
    /\ Len(call.results) = 1
    /\ call.results[1].source = SourceB

\* A location's records in a season's items: where it is first met, and its
\* total day length and count (its average is the one over the other).
FirstMet(items, loc) == CHOOSE i \in 1..Len(items) :
                            /\ items[i].location = loc
                            /\ \A j \in 1..(i - 1) : items[j].location # loc

LocTotal(items, loc) == TotalDayLength(GroupOf(items, loc, 1), Len(GroupOf(items, loc, 1)))

LocCount(items, loc) == Len(GroupOf(items, loc, 1))

\* loc ranks before other: a larger average, or an equal one and met first.
RanksBefore(items, loc, other) ==
    \/ LocTotal(items, loc) * LocCount(items, other)
          > LocTotal(items, other) * LocCount(items, loc)
    \/ /\ LocTotal(items, loc) * LocCount(items, other)
             = LocTotal(items, other) * LocCount(items, loc)
       /\ FirstMet(items, loc) < FirstMet(items, other)

\* C26: a season's top locations are at most 3 different locations of the
\* season, the ones of the largest average day length in the season, in
\* descending order of that average; locations of equal average are in the
\* order in which the grouping first met them.
C26_TopThreeLocations ==
    \A k \in 1..Len(seasonOrder) :
        LET items == SeasonGroup(astronomicalData, seasonOrder[k], env.tz, 1)
            all == {items[i].location : i \in 1..Len(items)}
            patterns == seasonalPatterns(astronomicalData, env.tz)
        IN  Len(items) > 0 =>
              \E p \in 1..Len(patterns) :
                 LET top == patterns[p].locations IN
                 /\ patterns[p].season = seasonOrder[k]
                 /\ Len(top) = (IF Cardinality(all) < 3 THEN Cardinality(all) ELSE 3)
                 /\ \A i \in 1..Len(top) : top[i] \in all
                 /\ \A i, j \in 1..Len(top) : i < j => RanksBefore(items, top[i], top[j])
                 /\ \A i \in 1..Len(top) :
                       \A other \in all \ {top[j] : j \in 1..Len(top)} :
                          RanksBefore(items, top[i], other)

\* A season has four locations, two of them of equal average, of which three
\* are reported.
C26_Witness ==
    memo.C.done /\ \E k \in 1..Len(seasonOrder) :
        LET items == SeasonGroup(astronomicalData, seasonOrder[k], env.tz, 1)
            all == {items[i].location : i \in 1..Len(items)}
        IN  /\ Cardinality(all) = 4
            /\ \E a, b \in all :
                  /\ a # b
                  /\ LocTotal(items, a) * LocCount(items, b) = LocTotal(items, b) * LocCount(items, a)
            /\ \E p \in 1..Len(memo.C.seasonalPatterns) :
                  /\ memo.C.seasonalPatterns[p].season = seasonOrder[k]
                  /\ Len(memo.C.seasonalPatterns[p].locations) = 3

\* q is num / den rounded to a whole number, a half away from zero
\* (num >= 0, den > 0).
RoundsTo(q, num, den) == den * (2 * q - 1) <= 2 * num /\ 2 * num < den * (2 * q + 1)

\* C27: the mean, the maximum and the minimum of the stats and each location's
\* average are whole minutes: the value in seconds divided by 60 and rounded,
\* a half away from zero; a location's average is over the records of exactly
\* that location string (Oslo with 64800 s and 21600 s: 720).
C27_WholeMinutes ==
    LET filtered == Keep(astronomicalData, applyFilters(astronomicalData), 1)
        n == Len(filtered)
        all == {filtered[i].location : i \in 1..n}
        s == stats(astronomicalData)
    IN  n > 0 =>
          /\ ~s.null
          /\ RoundsTo(s.avgDayLength, TotalDayLength(filtered, n), 60 * n)
          /\ \E i \in 1..n :
                /\ \A j \in 1..n : filtered[i].day_length >= filtered[j].day_length
                /\ RoundsTo(s.maxDayLength, filtered[i].day_length, 60)
          /\ \E i \in 1..n :
                /\ \A j \in 1..n : filtered[i].day_length <= filtered[j].day_length
                /\ RoundsTo(s.minDayLength, filtered[i].day_length, 60)
          /\ Len(s.locationStats) = Cardinality(all)
          /\ \A loc \in all :
                \E k \in 1..Len(s.locationStats) :
                   /\ s.locationStats[k].location = loc
                   /\ RoundsTo(s.locationStats[k].avgDayLength,
                               LocTotal(filtered, loc), 60 * LocCount(filtered, loc))

\* The stats are over Oslo's two records (average 720) and a record of 272
\* and a half minutes, the minimum, reported as 273.
C27_Witness ==
    LET s == stats(astronomicalData) IN
    /\ Len(astronomicalData) = 3
    /\ ~s.null
    /\ \E k \in 1..Len(s.locationStats) :
          s.locationStats[k].location = "Oslo" /\ s.locationStats[k].avgDayLength = 720
    /\ \E i \in 1..Len(astronomicalData) : astronomicalData[i].day_length = 16350
    /\ s.minDayLength = 273
    /\ s.maxDayLength = 1080

\* The mean over the consecutive pairs of one location's records by date, as
\* the exact fraction PairsNum / PairsDen of minutes per day, where a pair
\* with no day between its records counts for 0.
RECURSIVE DaysProduct(_, _)
DaysProduct(items, i) ==
    IF i < 2 THEN 1
    ELSE DaysProduct(items, i - 1)
           * (IF items[i].date > items[i - 1].date THEN items[i].date - items[i - 1].date ELSE 1)

RECURSIVE PairsSum(_, _)
PairsSum(items, i) ==
    IF i < 2 THEN 0
    ELSE PairsSum(items, i - 1)
           + (IF items[i].date > items[i - 1].date
              THEN (items[i].day_length - items[i - 1].day_length)
                     * (DaysProduct(items, Len(items)) \div (items[i].date - items[i - 1].date))
              ELSE 0)

PairsNum(items) == PairsSum(items, Len(items))

PairsDen(items) == 60 * (Len(items) - 1) * DaysProduct(items, Len(items))

OneDate(items) == \A i, j \in 1..Len(items) : items[i].date = items[j].date

\* C28: every location with at least 2 records has a trend whose change rate
\* is a finite number, also when consecutive records carry the same date; a
\* pair with no day between adds nothing to the sum of rates and the divisor
\* stays (number of records - 1), so the rate is within a tenth of that mean,
\* and a location all of whose records share one date is stable with rate 0.
C28_TrendNeverDividesByZero ==
    memo.C.done =>
      \A loc \in {astronomicalData[i].location : i \in 1..Len(astronomicalData)} :
         LET items == SortByDate(GroupOf(astronomicalData, loc, 1))
             trends == memo.C.locationTrends
         IN  Len(items) >= 2 =>
               \E k \in 1..Len(trends) :
                  /\ trends[k].location = loc
                  /\ ~trends[k].nan
                  /\ Abs(10 * PairsNum(items) - trends[k].changeRate * PairsDen(items))
                        <= PairsDen(items)
                  /\ OneDate(items) => trends[k].trend = "stable" /\ trends[k].changeRate = 0

\* The trends were computed for a location whose two records of one date
\* differ in day length and are followed by a record of a later date (the
\* divisor is 2, the rate 2.0 where the one dated pair alone has 4.0), and for
\* a store in which a location has only records of one date.
C28_Witness ==
    /\ memo.C.done
    /\ \E loc \in {astronomicalData[i].location : i \in 1..Len(astronomicalData)} :
          LET items == SortByDate(GroupOf(astronomicalData, loc, 1)) IN
          /\ Len(items) = 3
          /\ items[1].date = items[2].date
          /\ items[1].day_length # items[2].day_length
          /\ items[2].date < items[3].date
          /\ \E k \in 1..Len(memo.C.locationTrends) :
                /\ memo.C.locationTrends[k].location = loc
                /\ memo.C.locationTrends[k].trend = "increasing"
                /\ memo.C.locationTrends[k].changeRate = 20

\* The trends were computed for a location all of whose records share one
\* date, with different day lengths.
C28_WitnessOneDate ==
    /\ memo.C.done
    /\ \E loc \in {astronomicalData[i].location : i \in 1..Len(astronomicalData)} :
          LET items == GroupOf(astronomicalData, loc, 1) IN
          /\ Len(items) = 2
          /\ OneDate(items)
          /\ items[1].day_length # items[2].day_length
          /\ \E k \in 1..Len(memo.C.locationTrends) :
                /\ memo.C.locationTrends[k].location = loc
                /\ memo.C.locationTrends[k].changeRate = 0

\* C29: isLoading is true from the start of an acquisition until it ends,
\* and every acquisition ends with isLoading reset to false, whichever way it
\* leaves the handler; while isLoading is true the button is disabled, so no
\* acquisition starts while one is in progress.
C29_LoadingFlag ==
    /\ [](isLoading <=> pc # "idle")
    /\ [](isLoading => ~ENABLED Click)
    /\ [][pc = "idle" /\ pc' # "idle" => ~isLoading /\ inflight' = inflight \cup FanOut(datesToProcess'[1])]_vars
    /\ (isLoading ~> ~isLoading)

\* An acquisition of two dates or more ended after its last date, some insert
\* having failed, and the flag is reset.
C29_Witness ==
    /\ ~isLoading
    /\ pc = "idle"
    /\ report.title = "Success"
    /\ Len(datesToProcess) >= 2
    /\ Len(store) < Len(attempted)
    /\ completedDates >= 1

\* An acquisition was left through the catch, the start date being after the
\* end date, and the flag is reset.
C29_WitnessCatch ==
    /\ ~isLoading
    /\ pc = "idle"
    /\ report = Error("Start date must be before end date")

\* The location is blank, or the range's start date is after its end date.
InvalidInput == Trim(location) = "" \/ (dateMode = "range" /\ dateFrom > dateTo)

\* C30: an acquisition with a blank location, or in range mode with the start
\* date after the end date, reports an error and nothing else: no request is
\* sent to a provider, no insert is issued and no record is appended.
C30_InvalidInputNoEffect ==
    /\ [](InvalidInput =>
            /\ inflight = {}
            /\ attempted = <<>>
            /\ writes = {}
            /\ store = <<>>
            /\ report.title \in {"none", "Error"})
    /\ [][InvalidInput /\ pc = "idle" /\ ENABLED Click
            => report'.title = "Error" /\ pc' = "idle" /\ ~isLoading']_vars

\* The button was pressed in range mode with the start date after the end
\* date, for a place the geocoder finds.
C30_Witness ==
    /\ dateMode = "range"
    /\ dateFrom > dateTo
    /\ Trim(location) # ""
    /\ report = Error("Start date must be before end date")
    /\ inflight = {}
    /\ store = <<>>

\* The button was pressed with a blank location.
C30_WitnessBlank ==
    /\ Trim(location) = ""
    /\ report = Error("Please enter a location")
    /\ inflight = {}
    /\ store = <<>>

====
